---- MODULE Spec2Model ----
(***************************************************************************)
(* Model of the router (router/router.go, router/methods.go), the dispatch *)
(* handler (server handler: Register, Unregister, ServeHTTP) and the       *)
(* tracking response writer (server/response_writer.go) of pureapi-core.   *)
(*                                                                         *)
(* A Go string is a tuple of one-character strings, so that trimming,      *)
(* splitting, joining and byte-wise comparison are computed, not assumed.  *)
(***************************************************************************)
EXTENDS Integers, Sequences, FiniteSets, TLC

VARIABLES
    exact,              \* BuiltinRouter.exact: method -> path -> handler
    param,              \* BuiltinRouter.param: method -> ordered entries
    nreg,               \* number of Register calls made so far (history)
    registeredRoutes,   \* Handler.registeredRoutes: path -> set of methods
    cfg,                \* Handler configuration fixed by NewHandler
    call                \* the last call made and what it returned

vars == <<exact, param, nreg, registeredRoutes, cfg, call>>

----------------------------------------------------------------------------
(* Bounds *)

\* Largest number of Register calls in one behaviour of the router.
MaxRegs == 2
\* Largest number of Handler.Register calls in one behaviour of the handler.
MaxEndpoints == 2
\* Longest path string drawn for the pattern-matching probe.
MaxLen == 4
MaxCalls == 3
BodyLimitN == 2
MaxMiddlewares == 3
MaxThreads == 2
MaxUpdates == 2
MaxSignals == 2

----------------------------------------------------------------------------
(* Strings *)

\* The characters in use, in ascending byte order.
Ascii == <<" ", ",", "/", "1", ":", "A", "B", "C", "D", "E", "G", "H", "I",
           "K", "L", "N", "O", "P", "S", "T", "W", "a", "b", "x", "y", "{",
           "}">>

Code(c) == CHOOSE i \in 1..Len(Ascii) : Ascii[i] = c

\* Byte-wise lexicographic order of Go strings (s < t).
RECURSIVE StrLess(_, _)
StrLess(s, t) ==
    IF t = <<>> THEN FALSE
    ELSE IF s = <<>> THEN TRUE
    ELSE IF Code(s[1]) # Code(t[1]) THEN Code(s[1]) < Code(t[1])
    ELSE StrLess(Tail(s), Tail(t))

RECURSIVE TrimLeft(_)
TrimLeft(s) ==
    IF s # <<>> /\ s[1] = "/" THEN TrimLeft(Tail(s)) ELSE s

RECURSIVE TrimRight(_)
TrimRight(s) ==
    IF s # <<>> /\ s[Len(s)] = "/" THEN TrimRight(SubSeq(s, 1, Len(s) - 1))
    ELSE s

\* strings.Trim(s, "/"): every leading and trailing slash is removed.
Trim(s) == TrimRight(TrimLeft(s))

\* strings.Split(s, "/"): always at least one part; "" gives [""].
RECURSIVE Split(_)
Split(s) ==
    IF \A i \in 1..Len(s) : s[i] # "/" THEN <<s>>
    ELSE LET k == CHOOSE i \in 1..Len(s) :
                      s[i] = "/" /\ \A j \in 1..(i - 1) : s[j] # "/"
         IN <<SubSeq(s, 1, k - 1)>> \o Split(SubSeq(s, k + 1, Len(s)))

\* strings.Join(list, ", ")
RECURSIVE Join(_)
Join(list) ==
    IF list = <<>> THEN <<>>
    ELSE IF Len(list) = 1 THEN list[1]
    ELSE list[1] \o <<",", " ">> \o Join(Tail(list))

\* Go maps as functions with a finite domain.
EmptyMap == <<>>
MapSet(f, k, v) == [x \in (DOMAIN f) \cup {k} |-> IF x = k THEN v ELSE f[x]]
MapDel(f, k) == [x \in (DOMAIN f) \ {k} |-> f[x]]

----------------------------------------------------------------------------
(* Named strings *)

GET     == <<"G", "E", "T">>
HEAD    == <<"H", "E", "A", "D">>
POST    == <<"P", "O", "S", "T">>
OPTIONS == <<"O", "P", "T", "I", "O", "N", "S">>
PUT     == <<"P", "U", "T">>
PATCH   == <<"P", "A", "T", "C", "H">>
DELETE  == <<"D", "E", "L", "E", "T", "E">>
LINK    == <<"L", "I", "N", "K">>
BIND    == <<"B", "I", "N", "D">>

Root   == <<"/">>
PA     == <<"/", "a">>
PASl   == <<"/", "a", "/">>
PB     == <<"/", "b">>
PAB    == <<"/", "a", "/", "b">>
PA1    == <<"/", "a", "/", "1">>
PAX    == <<"/", "a", "/", ":", "x">>
PAY    == <<"/", "a", "/", ":", "y">>
PABrX  == <<"/", "a", "/", "{", "x", "}">>
PXX    == <<"/", ":", "x", "/", ":", "x">>
PXY    == <<"/", ":", "x", "/", ":", "y">>
PXB    == <<"/", ":", "x", "/", "b">>

\* No handler (Go nil) and no match (Go nil *Matched).
NoHandler == "nil"
NoMatch == [found |-> FALSE]
Nil == [kind |-> "nil"]

----------------------------------------------------------------------------
(* router/router.go *)

isParamSeg(s) ==
    \/ Len(s) > 0 /\ s[1] = ":"
    \/ Len(s) > 1 /\ s[1] = "{" /\ s[Len(s)] = "}"

trimDelims(s) ==
    IF s[1] = ":" THEN Tail(s)
    ELSE IF s[1] = "{" /\ s[Len(s)] = "}" THEN SubSeq(s, 2, Len(s) - 1)
    ELSE s

splitPath(p) == IF p = <<"/">> THEN << <<>> >> ELSE Split(Trim(p))

hasParam(p) == \E i \in 1..Len(splitPath(p)) : isParamSeg(splitPath(p)[i])

compile(pat) ==
    LET parts == splitPath(pat)
    IN [i \in 1..Len(parts) |->
            IF isParamSeg(parts[i])
            THEN [lit |-> <<>>, name |-> trimDelims(parts[i]), isParam |-> TRUE]
            ELSE [lit |-> parts[i], name |-> <<>>, isParam |-> FALSE]]

\* matchFrom without the rejection of an empty segment under a parameter.
RECURSIVE matchFrom_NoEmptyCheck(_, _, _, _)
matchFrom_NoEmptyCheck(segs, parts, i, params) ==
    IF i > Len(segs) THEN [kind |-> "map", m |-> params]
    ELSE IF segs[i].isParam
         THEN matchFrom_NoEmptyCheck(segs, parts, i + 1,
                                     MapSet(params, segs[i].name, parts[i]))
         ELSE IF segs[i].lit # parts[i] THEN Nil
              ELSE matchFrom_NoEmptyCheck(segs, parts, i + 1, params)

\* The loop of match from segment i on; params is the map built so far.
\* The result is Nil (Go nil map) or [kind |-> "map", m |-> params].
RECURSIVE matchFrom(_, _, _, _)
matchFrom(segs, parts, i, params) ==
    IF i > Len(segs) THEN [kind |-> "map", m |-> params]
    ELSE IF segs[i].isParam
         THEN IF parts[i] = <<>> THEN Nil
              ELSE matchFrom(segs, parts, i + 1,
                             MapSet(params, segs[i].name, parts[i]))
         ELSE IF segs[i].lit # parts[i] THEN Nil
              ELSE matchFrom(segs, parts, i + 1, params)

match(segs, path) ==
    LET parts == splitPath(path)
    IN IF Len(parts) # Len(segs) THEN Nil
       ELSE matchFrom(segs, parts, 1, EmptyMap)

\* Register that puts a new parameterized entry in front of the list.
Register_Prepend(r, method, pattern, h, t) ==
    IF method = <<>> \/ pattern = <<>> \/ h = NoHandler THEN r
    ELSE IF ~hasParam(pattern)
         THEN LET mm == IF method \in DOMAIN r.exact THEN r.exact[method]
                        ELSE EmptyMap
              IN [r EXCEPT !.exact =
                      MapSet(r.exact, method, MapSet(mm, pattern, h))]
         ELSE LET old == IF method \in DOMAIN r.param THEN r.param[method]
                         ELSE <<>>
                  e == [pattern |-> pattern, segs |-> compile(pattern),
                        h |-> h, at |-> t]
              IN [r EXCEPT !.param = MapSet(r.param, method, <<e>> \o old)]

\* Register without the test of its arguments.
Register_NoGuard(r, method, pattern, h, t) ==
    IF ~hasParam(pattern)
    THEN LET mm == IF method \in DOMAIN r.exact THEN r.exact[method]
                   ELSE EmptyMap
         IN [r EXCEPT !.exact =
                 MapSet(r.exact, method, MapSet(mm, pattern, h))]
    ELSE LET old == IF method \in DOMAIN r.param THEN r.param[method]
                    ELSE <<>>
             e == [pattern |-> pattern, segs |-> compile(pattern),
                   h |-> h, at |-> t]
         IN [r EXCEPT !.param = MapSet(r.param, method, Append(old, e))]

\* Register on the router state r = [exact, param]; t is the history stamp
\* of the call, kept in the entry next to its pattern.
Register(r, method, pattern, h, t) ==
    IF method = <<>> \/ pattern = <<>> \/ h = NoHandler THEN r
    ELSE IF ~hasParam(pattern)
         THEN LET mm == IF method \in DOMAIN r.exact THEN r.exact[method]
                        ELSE EmptyMap
              IN [r EXCEPT !.exact =
                      MapSet(r.exact, method, MapSet(mm, pattern, h))]
         ELSE LET old == IF method \in DOMAIN r.param THEN r.param[method]
                         ELSE <<>>
                  e == [pattern |-> pattern, segs |-> compile(pattern),
                        h |-> h, at |-> t]
              IN [r EXCEPT !.param = MapSet(r.param, method, Append(old, e))]

\* The entries of a list whose pattern differs from the argument, in order.
RECURSIVE keepOthers(_, _)
keepOthers(entries, pattern) ==
    IF entries = <<>> THEN <<>>
    ELSE IF entries[1].pattern # pattern
         THEN <<entries[1]>> \o keepOthers(Tail(entries), pattern)
         ELSE keepOthers(Tail(entries), pattern)

\* Unregister that leaves the parameterized entries alone.
Unregister_ExactOnly(r, method, pattern) ==
    [exact |-> IF method \in DOMAIN r.exact
               THEN MapSet(r.exact, method, MapDel(r.exact[method], pattern))
               ELSE r.exact,
     param |-> r.param]

Unregister(r, method, pattern) ==
    LET ex == IF method \in DOMAIN r.exact
              THEN MapSet(r.exact, method, MapDel(r.exact[method], pattern))
              ELSE r.exact
        entries == IF method \in DOMAIN r.param THEN r.param[method] ELSE <<>>
        dst == keepOthers(entries, pattern)
        pa == IF Len(entries) > 0
              THEN IF Len(dst) = 0 THEN MapDel(r.param, method)
                   ELSE MapSet(r.param, method, dst)
              ELSE r.param
    IN [exact |-> ex, param |-> pa]

\* The scan of the parameterized entries of Match from entry i on.
RECURSIVE matchEntries(_, _, _)
matchEntries(entries, path, i) ==
    IF i > Len(entries) THEN NoMatch
    ELSE LET params == match(entries[i].segs, path)
         IN IF params # Nil
            THEN [found |-> TRUE, h |-> entries[i].h, params |-> params.m]
            ELSE matchEntries(entries, path, i + 1)

\* Match that scans the parameterized entries before the exact table.
Match_ParamFirst(r, method, path) ==
    LET viaParam == IF method \in DOMAIN r.param
                    THEN matchEntries(r.param[method], path, 1)
                    ELSE NoMatch
    IN IF viaParam.found THEN viaParam
       ELSE IF method \in DOMAIN r.exact /\ path \in DOMAIN r.exact[method]
            THEN [found |-> TRUE, h |-> r.exact[method][path],
                  params |-> EmptyMap]
            ELSE NoMatch

Match(r, method, path) ==
    IF method \in DOMAIN r.exact /\ path \in DOMAIN r.exact[method]
    THEN [found |-> TRUE, h |-> r.exact[method][path], params |-> EmptyMap]
    ELSE IF method \in DOMAIN r.param /\ Len(r.param[method]) > 0
         THEN matchEntries(r.param[method], path, 1)
         ELSE NoMatch

----------------------------------------------------------------------------
(* router/methods.go *)

RECURSIVE matchSegmentsFrom(_, _, _, _)
matchSegmentsFrom(segs, parts, i, params) ==
    IF i > Len(segs) THEN [kind |-> "map", m |-> params]
    ELSE IF segs[i].isParam
         THEN IF parts[i] = <<>> THEN Nil
              ELSE matchSegmentsFrom(segs, parts, i + 1,
                                     MapSet(params, segs[i].name, parts[i]))
         ELSE IF segs[i].lit # parts[i] THEN Nil
              ELSE matchSegmentsFrom(segs, parts, i + 1, params)

matchSegments(segs, path) ==
    LET parts == splitPath(path)
    IN IF Len(parts) # Len(segs) THEN Nil
       ELSE matchSegmentsFrom(segs, parts, 1, EmptyMap)

\* slices.Sort on strings: ascending byte-wise order.
RECURSIVE InsertSorted(_, _)
InsertSorted(x, sorted) ==
    IF sorted = <<>> THEN <<x>>
    ELSE IF StrLess(sorted[1], x)
         THEN <<sorted[1]>> \o InsertSorted(x, Tail(sorted))
         ELSE <<x>> \o sorted

RECURSIVE SortStrings(_)
SortStrings(list) ==
    IF list = <<>> THEN <<>>
    ELSE InsertSorted(list[1], SortStrings(Tail(list)))

\* The orders in which a Go map range may visit the keys in S.
Perms(S) ==
    {f \in [1..Cardinality(S) -> S] :
        \A i, j \in 1..Cardinality(S) : f[i] = f[j] => i = j}

order == <<OPTIONS, GET, HEAD, POST, PUT, PATCH, DELETE>>

InOrder(m) == \E i \in 1..Len(order) : order[i] = m

\* The methods collected by the two loops over r.exact and r.param.
\* The methods of the exact table alone.
collected_ExactOnly(r, path) ==
    {m \in DOMAIN r.exact : path \in DOMAIN r.exact[m]}

collected(r, path) ==
    {m \in DOMAIN r.exact : path \in DOMAIN r.exact[m]}
    \cup {m \in DOMAIN r.param :
            \E i \in 1..Len(r.param[m]) :
                matchSegments(r.param[m][i].segs, path) # Nil}

\* augmented without the implicit HEAD.
augmented_NoHead(set) == IF set # {} THEN set \cup {OPTIONS} ELSE set

\* The set after HEAD and OPTIONS are added.
augmented(set) ==
    LET withHead == IF GET \in set THEN set \cup {HEAD} ELSE set
    IN IF withHead # {} THEN withHead \cup {OPTIONS} ELSE withHead

\* The keys left in the set after the loop over order deleted its members.
leftover(set) == {m \in augmented(set) : ~InOrder(m)}

\* ordered without the sort of the leftover methods.
ordered_Unsorted(set, iter) ==
    LET all == IF set # {}
               THEN set \cup {OPTIONS} \cup (IF GET \in set THEN {HEAD} ELSE {})
               ELSE set
    IN SelectSeq(<<OPTIONS, GET, HEAD, POST, PUT, PATCH, DELETE>>,
                 LAMBDA m : m \in all) \o iter

\* The ordered output for a collected set; iter is the order in which the
\* range over the leftover keys visits them.
ordered(set, iter) ==
    LET all == augmented(set)
        out == SelectSeq(order, LAMBDA m : m \in all)
        rest == SortStrings(iter)
    IN out \o rest

MethodsFor(r, path, iter) == ordered(collected(r, path), iter)

----------------------------------------------------------------------------
(* server/response_writer.go and the http.ResponseWriter under it *)

\* The writer stack of one request: the tracking writer (wroteHeader,
\* bytesWritten) and the writer it wraps (hdr is the live header map,
\* committed/status/sent are the status line and the headers as sent, body the
\* chunks received). forwarded lists the codes of the WriteHeader calls the
\* tracking writer passed on to the writer it wraps.
newTrackingResponseWriter ==
    [wroteHeader |-> FALSE, bytesWritten |-> 0, forwarded |-> <<>>,
     hdr |-> EmptyMap,
     committed |-> FALSE, status |-> 0, sent |-> EmptyMap, body |-> <<>>]

\* The byte length of the chunks written.
ChunkLen(data) ==
    CASE data = "body" -> 4
      [] data = "Request body too large" -> 23
      [] data = "Method Not Allowed" -> 19
      [] data = "404 page not found" -> 19
      [] data = "Internal Server Error" -> 22
      [] OTHER -> 1

\* ResponseWriter.WriteHeader of the wrapped writer: the first call sends the
\* status and the headers as they are then; later calls change nothing.
underlyingWriteHeader(ws, code) ==
    IF ws.committed THEN ws
    ELSE [ws EXCEPT !.committed = TRUE, !.status = code, !.sent = ws.hdr]

\* ResponseWriter.Write of the wrapped writer: sends 200 first if no status
\* was sent.
underlyingWrite(ws, data) ==
    LET a == underlyingWriteHeader(ws, 200)
    IN [a EXCEPT !.body = Append(@, data)]

HeaderSet(ws, k, v) == [ws EXCEPT !.hdr = MapSet(@, k, v)]
HeaderDel(ws, k) == [ws EXCEPT !.hdr = MapDel(@, k)]

\* WriteHeader without the wroteHeader test.
WriteHeader_NoGuard(ws, code) ==
    underlyingWriteHeader([ws EXCEPT !.wroteHeader = TRUE,
                                     !.forwarded = Append(@, code)], code)

\* trackingResponseWriter.WriteHeader
WriteHeader(ws, code) ==
    IF ws.wroteHeader THEN ws
    ELSE underlyingWriteHeader([ws EXCEPT !.wroteHeader = TRUE,
                                          !.forwarded = Append(@, code)], code)

\* trackingResponseWriter.Write
Write(ws, data) ==
    LET a == IF ~ws.wroteHeader THEN WriteHeader(ws, 200) ELSE ws
        b == underlyingWrite(a, data)
    IN [b EXCEPT !.bytesWritten = @ + ChunkLen(data)]

\* http.Error on the tracking writer.
HttpError(ws, text, code) ==
    LET a == HeaderDel(ws, "Content-Length")
        b == HeaderSet(a, "Content-Type", "text/plain; charset=utf-8")
        c == HeaderSet(b, "X-Content-Type-Options", "nosniff")
    IN Write(WriteHeader(c, code), text)

\* What the client gets when ServeHTTP returns: 200 and the live headers
\* when nothing was sent.
FinalStatus(ws) == IF ws.committed THEN ws.status ELSE 200
FinalHeaders(ws) == IF ws.committed THEN ws.sent ELSE ws.hdr

----------------------------------------------------------------------------
(* The dispatch handler *)

\* discardingWriter.Write
discardingWrite(ws, data) == ws

\* The request body as ServeHTTP leaves it in r.Body without the test of
\* the limit: always the reader the request came with.
bodyReader_Unlimited(c, req) ==
    [left |-> req.bodyLen, limited |-> FALSE, n |-> 0, failed |-> FALSE]

\* The request body as ServeHTTP leaves it in r.Body: the reader the request
\* came with (left bytes to deliver), under http.MaxBytesReader with n bytes
\* allowed when the limit is positive.
bodyReader(c, req) ==
    [left |-> req.bodyLen, limited |-> c.bodyLimit > 0,
     n |-> IF c.bodyLimit > 0 THEN c.bodyLimit ELSE 0, failed |-> FALSE]

\* One Read on r.Body with a buffer of k bytes (k > 0). The plain reader
\* delivers up to k bytes and EOF at the end. The limited reader asks for
\* at most n + 1 bytes; what fits in n is delivered, one byte more makes it
\* deliver n bytes and fail, now and on every later Read.
bodyRead(rd, k) ==
    IF ~rd.limited
    THEN LET m == IF k < rd.left THEN k ELSE rd.left
         IN [rd |-> [rd EXCEPT !.left = @ - m], got |-> m,
             err |-> IF m = 0 THEN "EOF" ELSE "nil"]
    ELSE IF rd.failed THEN [rd |-> rd, got |-> 0, err |-> "too large"]
    ELSE LET want == IF k - 1 > rd.n THEN rd.n + 1 ELSE k
             m == IF want < rd.left THEN want ELSE rd.left
         IN IF m <= rd.n
            THEN [rd |-> [rd EXCEPT !.left = @ - m, !.n = @ - m], got |-> m,
                  err |-> IF m = 0 THEN "EOF" ELSE "nil"]
            ELSE [rd |-> [rd EXCEPT !.left = @ - m, !.n = 0,
                                    !.failed = TRUE],
                  got |-> rd.n, err |-> "too large"]

\* io.ReadAll(r.Body) with a buffer of k bytes: Read until an error; EOF is
\* reported as no error.
RECURSIVE readAll(_, _, _)
readAll(rd, k, got) ==
    LET a == bodyRead(rd, k)
    IN IF a.err = "nil" THEN readAll(a.rd, k, got + a.got)
       ELSE [rd |-> a.rd, n |-> got + a.got,
             err |-> IF a.err = "EOF" THEN "nil" ELSE a.err]

\* A route handler is user code: on one request it performs a script of
\* calls on the request body and on the writer it is given and returns or
\* panics. hs is the writer, the body reader and the results of the reads
\* made; discard tells that the writer is a discardingWriter around the
\* tracking writer.
RECURSIVE runHandler(_, _, _, _)
runHandler(script, i, hs, discard) ==
    IF i > Len(script)
    THEN [ws |-> hs.ws, reads |-> hs.reads, panicked |-> FALSE]
    ELSE LET c == script[i]
             ws == hs.ws
         IN CASE c.op = "Set" ->
                   runHandler(script, i + 1,
                              [hs EXCEPT !.ws = HeaderSet(ws, "X-Handler", "1")],
                              discard)
              [] c.op = "WriteHeader" ->
                   runHandler(script, i + 1,
                              [hs EXCEPT !.ws = WriteHeader(ws, c.code)],
                              discard)
              [] c.op = "Write" ->
                   runHandler(script, i + 1,
                              [hs EXCEPT !.ws =
                                  IF discard THEN discardingWrite(ws, "body")
                                  ELSE Write(ws, "body")],
                              discard)
              [] c.op = "ReadAll" ->
                   LET a == readAll(hs.rd, c.buf, 0)
                   IN runHandler(script, i + 1,
                                 [hs EXCEPT !.rd = a.rd,
                                            !.reads = Append(@,
                                                [n |-> a.n, err |-> a.err])],
                                 discard)
              [] c.op = "panic" ->
                   [ws |-> ws, reads |-> hs.reads, panicked |-> TRUE,
                    value |-> c.value]

\* A panic guard that answers with the panic value as the body.
panicRecovery_Leak(out) ==
    [ws |-> HttpError(out.ws, out.value, 500),
     events |-> Append(out.events,
                       [type |-> "event_panic", panic |-> out.value]),
     escaped |-> FALSE]

\* panicRecovery: one panic event carrying the panic value, then http.Error
\* with 500 and the reason phrase.
panicRecovery(out) ==
    [ws |-> HttpError(out.ws, "Internal Server Error", 500),
     events |-> Append(out.events,
                       [type |-> "event_panic", panic |-> out.value]),
     escaped |-> FALSE]

\* A recoverer that calls next without a deferred recover.
recoverer_None(out) ==
    [ws |-> out.ws, events |-> <<>>, escaped |-> out.panicked]

\* createRecoverer: next runs under a deferred recover.
recoverer(out) ==
    IF out.panicked
    THEN panicRecovery([ws |-> out.ws, events |-> <<>>, value |-> out.value])
    ELSE [ws |-> out.ws, events |-> <<>>, escaped |-> FALSE]

\* Handler.matchesPattern
matchesPattern(pattern, path) ==
    LET patternParts == Split(Trim(pattern))
        pathParts == Split(Trim(path))
        isP(s) == \/ (Len(s) >= 1 /\ s[1] = ":")
                  \/ (Len(s) >= 1 /\ s[1] = "{" /\ s[Len(s)] = "}")
    IN /\ Len(patternParts) = Len(pathParts)
       /\ \A i \in 1..Len(patternParts) :
             IF isP(patternParts[i]) THEN pathParts[i] # <<>>
             ELSE patternParts[i] = pathParts[i]

\* The set collected by the fallback of allowedMethods from the index.
indexMethods(idx, path) ==
    (IF path \in DOMAIN idx THEN idx[path] ELSE {})
    \cup UNION {idx[pat] : pat \in {q \in DOMAIN idx :
                                      q = path \/ matchesPattern(q, path)}}

\* stableAllow
stableAllow(set, iter) ==
    LET h == augmented(set)
        out == SelectSeq(order, LAMBDA m : m \in h)
    IN out \o SortStrings(iter)

\* The set of methods allowedMethods starts from.
allowedSet(r, idx, c, path) ==
    IF c.introspect THEN collected(r, path) ELSE indexMethods(idx, path)

\* Handler.allowedMethods
allowedMethods(r, idx, c, path, iter) ==
    IF c.introspect THEN MethodsFor(r, path, iter)
    ELSE stableAllow(indexMethods(idx, path), iter)

\* Handler.isMethodNotAllowed
isMethodNotAllowed(idx, method, path) ==
    \/ path \in DOMAIN idx /\ method \notin idx[path]
    \/ \E registeredPath \in DOMAIN idx :
          matchesPattern(registeredPath, path)
              /\ method \notin idx[registeredPath]

\* The not-found handler set by WithNotFound in the tests.
CustomNotFoundScript == <<[op |-> "WriteHeader", code |-> 418]>>

\* h.notFound.ServeHTTP(tw, r): not under the recoverer.
notFound(c, ws, rd) ==
    IF c.notFound = "default"
    THEN [ws |-> HttpError(ws, "404 page not found", 404), panicked |-> FALSE]
    ELSE runHandler(CustomNotFoundScript, 1,
                    [ws |-> ws, rd |-> rd, reads |-> <<>>], FALSE)

\* The route parameters put in the request context (nil when none).
injected_None(m) == Nil

injected(m) == IF DOMAIN m.params # {}
               THEN [kind |-> "map", m |-> m.params] ELSE Nil

\* The outcome of a branch of ServeHTTP. lookups counts the calls of
\* h.router.Match made, reads lists the results of the handler's reads of
\* the request body.
Outcome(req, script, branch, ws, invoked, nf, events, esc, allow, n, reads) ==
    [op |-> "ServeHTTP", method |-> req.method, path |-> req.path,
     contentLength |-> req.contentLength, bodyLen |-> req.bodyLen,
     script |-> script,
     branch |-> branch, ws |-> ws, invoked |-> invoked, notFound |-> nf,
     events |-> events, escaped |-> esc, allow |-> allow,
     lookups |-> n, reads |-> reads]

\* h.recoverer(m.Handler).ServeHTTP(tw, r) for a resolved handler; seen is
\* the method of the request the handler receives, rd its body. queryMap
\* tells that the context holds the decoded query map.
invoke(req, script, branch, m, seen, discard, rd, lookups) ==
    LET run == runHandler(script, 1,
                          [ws |-> newTrackingResponseWriter, rd |-> rd,
                           reads |-> <<>>],
                          discard)
        out == recoverer(run)
    IN Outcome(req, script, branch, out.ws,
               <<[h |-> m.h, method |-> seen, params |-> injected(m),
                  queryMap |-> TRUE]>>,
               0, out.events, out.escaped, <<>>, lookups, run.reads)

\* The synthesized OPTIONS answer with status 200 instead of 204.
synthesizeOptions_OK(tw, allow) ==
    WriteHeader(HeaderSet(tw, "Allow", Join(allow)), 200)

\* The synthesized answer to OPTIONS: the Allow header and 204, no body.
synthesizeOptions(tw, allow) ==
    WriteHeader(HeaderSet(tw, "Allow", Join(allow)), 204)

\* The test of the body-size guard with >= for >.
tooLarge_AtLimit(c, req) ==
    c.bodyLimit > 0 /\ req.contentLength >= c.bodyLimit

\* The test of the body-size guard on the declared content length.
tooLarge(c, req) ==
    c.bodyLimit > 0 /\ req.contentLength > c.bodyLimit

\* A ServeHTTP without the HEAD fallback.
ServeHTTP_NoHeadFallback(r, idx, c, req, script, iter) ==
    LET tw == newTrackingResponseWriter
        rd == bodyReader(c, req)
        allow == allowedMethods(r, idx, c, req.path, iter)
        m == Match(r, req.method, req.path)
        tried == (IF req.method = OPTIONS THEN 2 ELSE 1)
                 + (IF req.method = HEAD THEN 1 ELSE 0)
    IN IF tooLarge(c, req)
       THEN Outcome(req, script, "413",
                    HttpError(tw, "Request body too large", 413),
                    <<>>, 0, <<>>, FALSE, <<>>, 0, <<>>)
       ELSE IF req.method = OPTIONS /\ m.found
       THEN invoke(req, script, "options-explicit", m, req.method, FALSE,
                   rd, 1)
       ELSE IF req.method = OPTIONS /\ Len(allow) > 0
       THEN Outcome(req, script, "options-synth",
                    synthesizeOptions(tw, allow),
                    <<>>, 0, <<>>, FALSE, allow, 1, <<>>)
       ELSE IF ~m.found
       THEN IF isMethodNotAllowed(idx, req.method, req.path)
            THEN LET a == IF Len(allow) > 0
                          THEN HeaderSet(tw, "Allow", Join(allow)) ELSE tw
                 IN Outcome(req, script, "405",
                            HttpError(a, "Method Not Allowed", 405),
                            <<>>, 0, <<>>, FALSE, allow, tried, <<>>)
            ELSE LET out == notFound(c, tw, rd)
                 IN Outcome(req, script, "not-found", out.ws, <<>>, 1, <<>>,
                            out.panicked, <<>>, tried, <<>>)
       ELSE invoke(req, script, "matched", m, req.method, FALSE, rd, 1)


\* Handler.ServeHTTP on router r, index idx and configuration c; script is
\* what the invoked handler does, iter the map iteration order met by
\* allowedMethods.
ServeHTTP(r, idx, c, req, script, iter) ==
    LET tw == newTrackingResponseWriter
        rd == bodyReader(c, req)
        allow == allowedMethods(r, idx, c, req.path, iter)
        m == Match(r, req.method, req.path)
        m2 == Match(r, GET, req.path)
        tried == (IF req.method = OPTIONS THEN 2 ELSE 1)
                 + (IF req.method = HEAD THEN 1 ELSE 0)
    IN IF tooLarge(c, req)
       THEN Outcome(req, script, "413",
                    HttpError(tw, "Request body too large", 413),
                    <<>>, 0, <<>>, FALSE, <<>>, 0, <<>>)
       ELSE IF req.method = OPTIONS /\ m.found
       THEN invoke(req, script, "options-explicit", m, req.method, FALSE,
                   rd, 1)
       ELSE IF req.method = OPTIONS /\ Len(allow) > 0
       THEN Outcome(req, script, "options-synth",
                    synthesizeOptions(tw, allow),
                    <<>>, 0, <<>>, FALSE, allow, 1, <<>>)
       ELSE IF ~m.found /\ req.method = HEAD /\ m2.found
       THEN invoke(req, script, "head-fallback", m2, GET, TRUE, rd, 2)
       ELSE IF ~m.found
       THEN IF isMethodNotAllowed(idx, req.method, req.path)
            THEN LET a == IF Len(allow) > 0
                          THEN HeaderSet(tw, "Allow", Join(allow)) ELSE tw
                 IN Outcome(req, script, "405",
                            HttpError(a, "Method Not Allowed", 405),
                            <<>>, 0, <<>>, FALSE, allow, tried, <<>>)
            ELSE LET out == notFound(c, tw, rd)
                 IN Outcome(req, script, "not-found", out.ws, <<>>, 1, <<>>,
                            out.panicked, <<>>, tried, <<>>)
       ELSE invoke(req, script, "matched", m, req.method, FALSE, rd, 1)

\* A Register that leaves the index as it is.
indexAdd_Skip(idx, url, method) == idx

\* One iteration of the loop of Handler.Register: the router call and the
\* index update.
indexAdd(idx, url, method) ==
    MapSet(idx, url,
           (IF url \in DOMAIN idx THEN idx[url] ELSE {}) \cup {method})

\* An index update that drops the path whatever the method.
indexRemove_WholePath(idx, method, path) == MapDel(idx, path)

\* The index update of Handler.Unregister.
indexRemove(idx, method, path) ==
    IF path \in DOMAIN idx
    THEN IF idx[path] \ {method} = {} THEN MapDel(idx, path)
         ELSE MapSet(idx, path, idx[path] \ {method})
    ELSE idx

----------------------------------------------------------------------------
(* Inputs *)

Handlers == {"h1", "h2"}

\* Methods, patterns and request paths of the calls made on the router.
RouterMethods == {GET, POST, LINK, BIND}
RouterPatterns == {PA, PAB, PAX, PAY}
RouterPaths == {PA, PASl, PAB, PA1, PB}

\* Patterns and paths of the pattern-matching probe.
PX == <<"/", ":", "x">>
PAXB == <<"/", "a", "/", ":", "x", "/", "b">>
ProbePatterns == {PX, PAX, PABrX, PXX, PXY, PXB, PAXB}
ProbeAlphabet == {"/", "a", "b", "1"}
ProbePaths == UNION {[1..n -> ProbeAlphabet] : n \in 0..MaxLen}

NoCall == [op |-> "none"]

\* The router as one value.
R == [exact |-> exact, param |-> param]

----------------------------------------------------------------------------
(* Construction *)

\* NewBuiltinRouter and NewHandler with its defaults.
DefaultBodyLimit == 2097152

DefaultCfg == [notFound |-> "default", introspect |-> TRUE,
               bodyLimit |-> DefaultBodyLimit]

InitRouter ==
    /\ exact = EmptyMap
    /\ param = EmptyMap
    /\ nreg = 0
    /\ registeredRoutes = EmptyMap
    /\ cfg = DefaultCfg
    /\ call = NoCall

----------------------------------------------------------------------------
(* Calls on the router *)

\* The calls are made one after the other (the router is not safe for
\* concurrent mutation): a call starts when the previous one has returned.
\* A call leaves in call its arguments and result; a mutation leaves the
\* router as it was before it as well.
DoRegister(method, pattern, h) ==
    /\ call = NoCall
    /\ nreg < MaxRegs
    /\ LET r2 == Register(R, method, pattern, h, nreg + 1)
       IN exact' = r2.exact /\ param' = r2.param
    /\ nreg' = nreg + 1
    /\ call' = [op |-> "Register", method |-> method, pattern |-> pattern,
                h |-> h, err |-> "nil", before |-> R]
    /\ UNCHANGED <<registeredRoutes, cfg>>

\* Unregister, called when no call is pending or right after the Register
\* of the same pair; undone then holds the router as it was before that
\* Register.
DoUnregister(method, pattern) ==
    /\ \/ call = NoCall
       \/ /\ call.op = "Register"
          /\ call.method = method
          /\ call.pattern = pattern
    /\ LET r2 == Unregister(R, method, pattern)
       IN exact' = r2.exact /\ param' = r2.param
    /\ call' = [op |-> "Unregister", method |-> method, pattern |-> pattern,
                err |-> "nil", before |-> R,
                undone |-> IF call = NoCall THEN <<>> ELSE <<call.before>>]
    /\ UNCHANGED <<nreg, registeredRoutes, cfg>>

DoMatch(method, path) ==
    /\ call = NoCall
    /\ call' = [op |-> "Match", method |-> method, path |-> path,
                res |-> Match(R, method, path)]
    /\ UNCHANGED <<exact, param, nreg, registeredRoutes, cfg>>

DoMethodsFor(path) ==
    /\ call = NoCall
    /\ \E iter \in Perms(leftover(collected(R, path))) :
          call' = [op |-> "MethodsFor", path |-> path,
                   res |-> MethodsFor(R, path, iter)]
    /\ UNCHANGED <<exact, param, nreg, registeredRoutes, cfg>>

\* The caller takes the result of a Match, MethodsFor or ServeHTTP call.
DoReturn ==
    /\ call.op \in {"Match", "MethodsFor", "ServeHTTP", "Register",
                   "Unregister", "HandlerUnregister"}
    /\ call' = NoCall
    /\ UNCHANGED <<exact, param, nreg, registeredRoutes, cfg>>

NextRouter ==
    \/ \E m \in RouterMethods, p \in RouterPatterns, h \in Handlers :
          DoRegister(m, p, h)
    \/ \E m \in RouterMethods, p \in RouterPatterns : DoUnregister(m, p)
    \/ \E m \in RouterMethods, p \in RouterPaths : DoMatch(m, p)
    \/ \E p \in RouterPaths : DoMethodsFor(p)
    \/ DoReturn

SpecRouter == InitRouter /\ [][NextRouter]_vars

----------------------------------------------------------------------------
(* The pattern-matching probe: match applied to a compiled pattern *)

InitProbe ==
    /\ exact = EmptyMap
    /\ param = EmptyMap
    /\ nreg = 0
    /\ registeredRoutes = EmptyMap
    /\ cfg = DefaultCfg
    /\ \E pat \in ProbePatterns, path \in ProbePaths :
          call = [op |-> "input", pattern |-> pat, path |-> path]

DoProbe ==
    /\ call.op = "input"
    /\ call' = [op |-> "match", pattern |-> call.pattern, path |-> call.path,
                res |-> match(compile(call.pattern), call.path)]
    /\ UNCHANGED <<exact, param, nreg, registeredRoutes, cfg>>

NextProbe == DoProbe

SpecProbe == InitProbe /\ [][NextProbe]_vars

----------------------------------------------------------------------------
(* Calls on the dispatch handler *)

\* Endpoints registered and requests served.
EndpointMethods == {GET, POST, HEAD, OPTIONS}
EndpointURLs == {PA, PAX}
RequestMethods == {GET, POST, HEAD, OPTIONS}
RequestPaths == {PA, PASl, PA1}
ContentLengths == {0, DefaultBodyLimit + 1}

\* What a route handler may do with its writer on one request.
Scripts ==
    { <<[op |-> "Set"], [op |-> "WriteHeader", code |-> 201], [op |-> "Write"]>>,
      <<[op |-> "Write"]>>,
      <<[op |-> "Write"], [op |-> "Set"]>>,
      <<[op |-> "panic", value |-> "boom"]>>,
      <<[op |-> "Write"], [op |-> "panic", value |-> "error: boom"]>>,
      <<[op |-> "WriteHeader", code |-> 201],
        [op |-> "panic", value |-> "struct{boom}"]>> }

\* NewHandler with no option, with WithNotFound, and with WithRouter given a
\* router that does not expose MethodsFor.
Configs ==
    { DefaultCfg,
      [DefaultCfg EXCEPT !.notFound = "custom"],
      [DefaultCfg EXCEPT !.introspect = FALSE] }

Init ==
    /\ exact = EmptyMap
    /\ param = EmptyMap
    /\ nreg = 0
    /\ registeredRoutes = EmptyMap
    /\ cfg \in Configs
    /\ call = NoCall

\* Handler.Register with one endpoint.
HandlerRegister(url, method, h) ==
    /\ call = NoCall
    /\ nreg < MaxEndpoints
    /\ LET r2 == Register(R, method, url, h, nreg + 1)
       IN exact' = r2.exact /\ param' = r2.param
    /\ registeredRoutes' = indexAdd(registeredRoutes, url, method)
    /\ nreg' = nreg + 1
    /\ UNCHANGED <<cfg, call>>

\* Handler.Unregister
HandlerUnregister(method, path) ==
    /\ call = NoCall
    /\ LET r2 == Unregister(R, method, path)
       IN exact' = r2.exact /\ param' = r2.param
    /\ registeredRoutes' = indexRemove(registeredRoutes, method, path)
    /\ call' = [op |-> "HandlerUnregister", method |-> method, path |-> path,
                before |-> R, beforeIndex |-> registeredRoutes]
    /\ UNCHANGED <<nreg, cfg>>

\* The request passes the body-size guard and a route handler is resolved
\* for it, so that the handler's script is an input of the call.
RunsHandler(r, c, req) ==
    /\ ~tooLarge(c, req)
    /\ \/ Match(r, req.method, req.path).found
       \/ req.method = HEAD /\ Match(r, GET, req.path).found

NoScript == <<>>

\* A ServeHTTP that notes the method of the request in the index entry of
\* its path.
DoServeHTTP_Noting(req, script) ==
    /\ call = NoCall
    /\ script = NoScript <=> ~RunsHandler(R, cfg, req)
    /\ \E iter \in Perms(leftover(allowedSet(R, registeredRoutes, cfg,
                                               req.path))) :
          call' = ServeHTTP(R, registeredRoutes, cfg, req, script, iter)
    /\ registeredRoutes' = indexAdd(registeredRoutes, req.path, req.method)
    /\ UNCHANGED <<exact, param, nreg, cfg>>

\* Handler.ServeHTTP on one request.
DoServeHTTP(req, script) ==
    /\ call = NoCall
    /\ script = NoScript <=> ~RunsHandler(R, cfg, req)
    /\ \E iter \in Perms(leftover(allowedSet(R, registeredRoutes, cfg,
                                               req.path))) :
          call' = ServeHTTP(R, registeredRoutes, cfg, req, script, iter)
    /\ UNCHANGED <<exact, param, nreg, registeredRoutes, cfg>>

Next ==
    \/ \E url \in EndpointURLs, m \in EndpointMethods, h \in Handlers :
          HandlerRegister(url, m, h)
    \/ \E m \in EndpointMethods, p \in EndpointURLs : HandlerUnregister(m, p)
    \/ \E m \in RequestMethods, p \in RequestPaths, n \in ContentLengths,
          script \in Scripts \cup {NoScript} :
          DoServeHTTP([method |-> m, path |-> p, contentLength |-> n,
                       bodyLen |-> 0], script)
    \/ DoReturn

Spec == Init /\ [][Next]_vars

----------------------------------------------------------------------------
(* Properties of the router *)

\* An exact route of the method has a pattern string equal to the path.
ExactRoute(method, path) ==
    method \in DOMAIN exact /\ path \in DOMAIN exact[method]

\* The positions of the parameterized entries of the method that match.
ParamCandidates(method, path) ==
    IF method \in DOMAIN param
    THEN {i \in 1..Len(param[method]) :
             match(param[method][i].segs, path) # Nil}
    ELSE {}

\* C1: whenever an exact route of the request's method has a pattern string
\* equal to the request path, Match returns that route's handler and an empty
\* parameter map, whatever parameterized routes match as well.
C1_ExactBeatsParam ==
    (call.op = "Match" /\ ExactRoute(call.method, call.path))
        => /\ call.res.found
           /\ call.res.h = exact[call.method][call.path]
           /\ call.res.params = EmptyMap

\* Witness of C1: a Match answered by an exact route while a parameterized
\* route of the same method matches the path too.
C1_Witness ==
    /\ call.op = "Match"
    /\ ExactRoute(call.method, call.path)
    /\ ParamCandidates(call.method, call.path) # {}
    /\ call.res.found
    /\ call.res.h = exact[call.method][call.path]

\* C2: when parameterized routes of the request's method match the path (and
\* the lookup reaches them), Match returns the handler and the bindings of
\* the matching entry that was registered earliest among those present.
C2_FirstRegisteredWins ==
    (/\ call.op = "Match"
     /\ ~ExactRoute(call.method, call.path)
     /\ ParamCandidates(call.method, call.path) # {})
        => \E i \in ParamCandidates(call.method, call.path) :
              LET e == param[call.method][i]
              IN /\ \A j \in ParamCandidates(call.method, call.path) :
                        e.at <= param[call.method][j].at
                 /\ call.res.found
                 /\ call.res.h = e.h
                 /\ call.res.params = match(e.segs, call.path).m

\* Witness of C2: /a/:x registered before /a/:y with another handler, and
\* GET /a/1 answered by the first with x bound to 1.
C2_Witness ==
    /\ call.op = "Match"
    /\ call.path = PA1
    /\ call.method \in DOMAIN param
    /\ Len(param[call.method]) = 2
    /\ param[call.method][1].pattern = PAX
    /\ param[call.method][2].pattern = PAY
    /\ param[call.method][1].h # param[call.method][2].h
    /\ call.res.found
    /\ call.res.h = param[call.method][1].h
    /\ call.res.params = [n \in {<<"x">>} |-> <<"1">>]

\* The names of the parameter segments of a compiled pattern.
ParamNames(segs) == {segs[i].name : i \in {j \in 1..Len(segs) : segs[j].isParam}}

\* The segment rule of a parameterized pattern against a path.
SegmentsAgree(segs, parts) ==
    /\ Len(parts) = Len(segs)
    /\ \A i \in 1..Len(segs) :
          IF segs[i].isParam THEN parts[i] # <<>> ELSE segs[i].lit = parts[i]

\* C3: a parameterized pattern matches a path iff both have the same number
\* of segments, every literal segment equals the path segment it faces and
\* every parameter segment faces a non-empty path segment; the result binds
\* each parameter name to the path segment it faces (the last one when the
\* name occurs twice), so every bound value is non-empty; /a/:x matches
\* none of /a, /a/ and /a//.
C3_ParamMatchRule ==
    call.op = "match"
        => LET segs == compile(call.pattern)
               parts == splitPath(call.path)
           IN /\ (call.res # Nil) <=> SegmentsAgree(segs, parts)
              /\ call.res # Nil =>
                    /\ DOMAIN call.res.m = ParamNames(segs)
                    /\ \A i \in 1..Len(segs) :
                          (/\ segs[i].isParam
                           /\ \A j \in (i + 1)..Len(segs) :
                                 ~(segs[j].isParam /\ segs[j].name = segs[i].name))
                              => call.res.m[segs[i].name] = parts[i]
                    /\ \A n \in DOMAIN call.res.m : call.res.m[n] # <<>>
              /\ (/\ call.pattern = PAX
                  /\ call.path \in {PA, PASl, <<"/", "a", "/", "/">>})
                    => call.res = Nil

\* Witness of C3: a two-parameter pattern matched with both names bound.
C3_Witness ==
    /\ call.op = "match"
    /\ call.pattern = PXY
    /\ call.path = <<"/", "a", "/", "1">>
    /\ call.res # Nil
    /\ call.res.m = [n \in {<<"x">>, <<"y">>} |->
                        IF n = <<"x">> THEN <<"a">> ELSE <<"1">>]

\* The methods that have an exact route equal to the path or a parameterized
\* route matching it.
U(path) ==
    {m \in (DOMAIN exact) \cup (DOMAIN param) :
        ExactRoute(m, path) \/ ParamCandidates(m, path) # {}}

Elements(list) == {list[i] : i \in 1..Len(list)}

\* C7: MethodsFor returns, each once, the methods of U plus HEAD when GET is
\* in U plus OPTIONS when U is not empty, and the empty list when U is empty.
C7_MethodsForSet ==
    call.op = "MethodsFor"
        => LET u == U(call.path)
           IN /\ Elements(call.res) =
                    u \cup (IF GET \in u THEN {HEAD} ELSE {})
                      \cup (IF u # {} THEN {OPTIONS} ELSE {})
              /\ \A i, j \in 1..Len(call.res) :
                    call.res[i] = call.res[j] => i = j
              /\ u = {} => call.res = <<>>

\* Witness of C7: GET and another method serve the path, and the list holds
\* them with HEAD and OPTIONS.
C7_Witness ==
    /\ call.op = "MethodsFor"
    /\ GET \in U(call.path)
    /\ Cardinality(U(call.path)) = 2
    /\ Len(call.res) = 4
    /\ HEAD \in Elements(call.res)
    /\ OPTIONS \in Elements(call.res)

Position(m) == CHOOSE i \in 1..Len(order) : order[i] = m

\* C8: the list of MethodsFor is fixed by the set of routes alone: members of
\* OPTIONS, GET, HEAD, POST, PUT, PATCH, DELETE come first, in that order,
\* then every other method in ascending byte-wise order.
C8_MethodsForOrder ==
    call.op = "MethodsFor"
        => \A i, j \in 1..Len(call.res) :
              i < j =>
                 /\ InOrder(call.res[j]) => InOrder(call.res[i])
                 /\ (InOrder(call.res[i]) /\ InOrder(call.res[j]))
                       => Position(call.res[i]) < Position(call.res[j])
                 /\ (~InOrder(call.res[i]) /\ ~InOrder(call.res[j]))
                       => StrLess(call.res[i], call.res[j])

\* Witness of C8: two custom methods serve the path and are listed after
\* OPTIONS in ascending order.
C8_Witness ==
    /\ call.op = "MethodsFor"
    /\ U(call.path) = {LINK, BIND}
    /\ call.res = <<OPTIONS, BIND, LINK>>

----------------------------------------------------------------------------
(* Properties of the dispatch handler *)

\* The request of the last ServeHTTP call passed the body-size guard.
Admitted ==
    /\ call.op = "ServeHTTP"
    /\ ~(cfg.bodyLimit > 0 /\ call.contentLength > cfg.bodyLimit)

\* A route of the method is matched by the path.
Routed(method, path) ==
    ExactRoute(method, path) \/ ParamCandidates(method, path) # {}

\* The handler of the route that serves the method on the path.
RouteHandler(method, path) ==
    IF ExactRoute(method, path) THEN exact[method][path]
    ELSE LET c == ParamCandidates(method, path)
             i == CHOOSE k \in c : \A j \in c :
                      param[method][k].at <= param[method][j].at
         IN param[method][i].h

\* The lists allowedMethods may return for the path.
AllowLists(path) ==
    {allowedMethods(R, registeredRoutes, cfg, path, iter) :
        iter \in Perms(leftover(allowedSet(R, registeredRoutes, cfg, path)))}

\* The request resolves to no route: no direct match, no HEAD fallback and
\* no OPTIONS synthesis.
Unresolved ==
    /\ Admitted
    /\ ~Routed(call.method, call.path)
    /\ ~(call.method = HEAD /\ Routed(GET, call.path))
    /\ ~(call.method = OPTIONS /\ AllowLists(call.path) # {<<>>})

\* C4: a request that resolves to no route is answered 405 iff its path
\* matches a registered pattern under a method other than the request's;
\* otherwise the not-found handler is invoked and no 405 is produced.
C4_NotAllowedIffOtherMethod ==
    Unresolved
        => IF \E m \in U(call.path) : m # call.method
           THEN FinalStatus(call.ws) = 405 /\ call.notFound = 0
           ELSE FinalStatus(call.ws) # 405 /\ call.notFound = 1

\* C5: every 405 of the dispatch handler carries an Allow header whose value
\* is the non-empty allowed-methods list of the request path joined by ", ".
C5_NotAllowedCarriesAllow ==
    (call.op = "ServeHTTP" /\ call.branch = "405")
        => /\ "Allow" \in DOMAIN FinalHeaders(call.ws)
           /\ \E list \in AllowLists(call.path) :
                 /\ list # <<>>
                 /\ FinalHeaders(call.ws)["Allow"] = Join(list)

\* C6: an OPTIONS request whose path has no matching OPTIONS route and a
\* non-empty allowed-methods list invokes no route handler and no not-found
\* handler, gets the Allow header set to the list joined by ", ", status
\* 204 and no body.
C6_OptionsSynthesized ==
    (/\ Admitted
     /\ call.method = OPTIONS
     /\ ~Routed(OPTIONS, call.path)
     /\ AllowLists(call.path) # {<<>>})
        => /\ call.invoked = <<>>
           /\ call.notFound = 0
           /\ FinalStatus(call.ws) = 204
           /\ call.ws.committed
           /\ call.ws.body = <<>>
           /\ "Allow" \in DOMAIN FinalHeaders(call.ws)
           /\ \E list \in AllowLists(call.path) :
                 FinalHeaders(call.ws)["Allow"] = Join(list)

\* Witness of C6: GET and POST serve the path and OPTIONS is answered 204
\* with Allow: OPTIONS, GET, HEAD, POST.
C6_Witness ==
    /\ Admitted
    /\ call.method = OPTIONS
    /\ U(call.path) = {GET, POST}
    /\ call.ws.status = 204
    /\ "Allow" \in DOMAIN call.ws.sent
    /\ call.ws.sent["Allow"] =
          <<"O", "P", "T", "I", "O", "N", "S", ",", " ", "G", "E", "T", ",", " ",
            "H", "E", "A", "D", ",", " ", "P", "O", "S", "T">>

\* The request is a HEAD served by the fallback to a GET route.
HeadFallback ==
    /\ Admitted
    /\ call.method = HEAD
    /\ ~Routed(HEAD, call.path)
    /\ Routed(GET, call.path)

\* C9: on a HEAD request with no matching HEAD route and a matching GET
\* route, the GET route's handler is invoked exactly once with a GET request
\* and no body byte reaches the underlying writer, whether the handler
\* returns or panics.
C9_HeadFallbackNoBody ==
    HeadFallback
        => /\ Len(call.invoked) = 1
           /\ call.invoked[1].h = RouteHandler(GET, call.path)
           /\ call.invoked[1].method = GET
           /\ call.ws.body = <<>>

\* C10: the status and the headers answered to HEAD on a GET-only route are
\* those the same handler behaviour produces for GET on that path.
C10_HeadEqualsGet ==
    HeadFallback
        => \A iter \in Perms(leftover(allowedSet(R, registeredRoutes, cfg,
                                                  call.path))) :
              LET get == ServeHTTP(R, registeredRoutes, cfg,
                                   [method |-> GET, path |-> call.path,
                                    contentLength |-> call.contentLength,
                                    bodyLen |-> call.bodyLen],
                                   call.script, iter)
              IN /\ FinalStatus(call.ws) = FinalStatus(get.ws)
                 /\ FinalHeaders(call.ws) = FinalHeaders(get.ws)

----------------------------------------------------------------------------
(* Panic recovery *)

\* The last ServeHTTP call resolved a route handler and invoked it.
Invoked == call.op = "ServeHTTP" /\ call.invoked # <<>>

\* The position of the panic in a script (0 when the script returns).
PanicAt(script) ==
    IF \E i \in 1..Len(script) : script[i].op = "panic"
    THEN CHOOSE i \in 1..Len(script) : script[i].op = "panic"
    ELSE 0

\* The calls of a script that commit a status on the writer the handler is
\* given: WriteHeader always, Write unless the writer discards the body.
Committing(script, discard) ==
    {i \in 1..Len(script) :
        /\ PanicAt(script) = 0 \/ i < PanicAt(script)
        /\ \/ script[i].op = "WriteHeader"
           \/ script[i].op = "Write" /\ ~discard}

\* The status committed first by the script.
FirstStatus(script, discard) ==
    LET i == CHOOSE k \in Committing(script, discard) :
                 \A j \in Committing(script, discard) : k <= j
    IN IF script[i].op = "WriteHeader" THEN script[i].code ELSE 200

\* Every string the client receives: the body chunks and the header values.
ResponseContent(ws) ==
    {ws.body[i] : i \in 1..Len(ws.body)}
    \cup {FinalHeaders(ws)[k] : k \in DOMAIN FinalHeaders(ws)}

\* A handler matched under the request's own method panicked.
MatchedPanic ==
    /\ Invoked
    /\ call.branch \in {"matched", "options-explicit"}
    /\ PanicAt(call.script) # 0

\* C11 as stated: whenever an invoked route handler panics, at any point of
\* its execution, the response has status 500 with the reason phrase as its
\* body and the panic value appears nowhere in the response.
C11_PanicAlways500 ==
    MatchedPanic
        => /\ FinalStatus(call.ws) = 500
           /\ call.ws.body = <<"Internal Server Error">>
           /\ call.script[PanicAt(call.script)].value
                 \notin ResponseContent(call.ws)

\* C11 amended: a matched route handler that panics before it committed a status
\* gets status 500 with the reason phrase as the whole body; one that
\* panics after it committed a status keeps that first status and the
\* reason phrase follows the body already written. In both cases the panic
\* value appears nowhere in the response.
C11_PanicRecovered ==
    MatchedPanic
        => LET early == Committing(call.script, FALSE) = {}
               written == SelectSeq(
                            [i \in 1..(PanicAt(call.script) - 1) |->
                                IF call.script[i].op = "Write"
                                THEN "body" ELSE ""],
                            LAMBDA x : x = "body")
           IN /\ FinalStatus(call.ws) =
                    (IF early THEN 500
                     ELSE FirstStatus(call.script, FALSE))
              /\ call.ws.body = written \o <<"Internal Server Error">>
              /\ call.script[PanicAt(call.script)].value
                    \notin ResponseContent(call.ws)

\* Witness of C11: a matched handler wrote its body, panicked, and the
\* response keeps status 200 with the reason phrase after the body.
C11_Witness ==
    /\ MatchedPanic
    /\ call.branch = "matched"
    /\ PanicAt(call.script) = 2
    /\ call.script[1].op = "Write"
    /\ call.ws.status = 200
    /\ call.ws.body = <<"body", "Internal Server Error">>

\* C12: no panic of a handler that ServeHTTP resolves and invokes (matched
\* route, explicit OPTIONS route, GET handler of the HEAD fallback) escapes
\* ServeHTTP: the guard recovers it, emits one panic event and ServeHTTP
\* returns normally.
C12_NoPanicEscapes ==
    Invoked
        => /\ call.branch \in {"matched", "options-explicit", "head-fallback"}
           /\ ~call.escaped
           /\ Len(call.events) = (IF PanicAt(call.script) # 0 THEN 1 ELSE 0)

\* Witness of C12: the GET handler run by the HEAD fallback panicked and
\* ServeHTTP returned.
C12_Witness ==
    /\ Invoked
    /\ call.branch = "head-fallback"
    /\ PanicAt(call.script) # 0
    /\ ~call.escaped
    /\ Len(call.events) = 1

----------------------------------------------------------------------------
(* The tracking response writer alone *)

\* The status codes passed to WriteHeader.
StatusCodes == {200, 201, 404}

\* One tracking writer over a fresh underlying writer; log is the sequence
\* of calls made on it so far.
InitWriter ==
    /\ exact = EmptyMap
    /\ param = EmptyMap
    /\ nreg = 0
    /\ registeredRoutes = EmptyMap
    /\ cfg = DefaultCfg
    /\ call = [op |-> "writer", ws |-> newTrackingResponseWriter, log |-> <<>>]

\* A call of WriteHeader(code) on the tracking writer.
WriterWriteHeader(code) ==
    /\ call.op = "writer"
    /\ Len(call.log) < MaxCalls
    /\ call' = [call EXCEPT
                  !.ws = WriteHeader(@, code),
                  !.log = Append(@, [op |-> "WriteHeader", code |-> code])]
    /\ UNCHANGED <<exact, param, nreg, registeredRoutes, cfg>>

\* A call of Write on the tracking writer.
WriterWrite ==
    /\ call.op = "writer"
    /\ Len(call.log) < MaxCalls
    /\ call' = [call EXCEPT !.ws = Write(@, "body"),
                            !.log = Append(@, [op |-> "Write"])]
    /\ UNCHANGED <<exact, param, nreg, registeredRoutes, cfg>>

\* The panic guard answering on the tracking writer: http.Error with 500.
WriterPanicGuard ==
    /\ call.op = "writer"
    /\ Len(call.log) < MaxCalls
    /\ call' = [call EXCEPT
                  !.ws = HttpError(@, "Internal Server Error", 500),
                  !.log = Append(@, [op |-> "WriteHeader", code |-> 500])]
    /\ UNCHANGED <<exact, param, nreg, registeredRoutes, cfg>>

NextWriter ==
    \/ \E code \in StatusCodes : WriterWriteHeader(code)
    \/ WriterWrite
    \/ WriterPanicGuard

SpecWriter == InitWriter /\ [][NextWriter]_vars

\* C13: over any sequence of WriteHeader and Write calls on one tracking
\* writer, at most one WriteHeader is forwarded to the underlying writer; it
\* carries the first status committed (the explicit code, or 200 when a body
\* write came first), and that is the status the underlying writer sent.
C13_OneStatusForwarded ==
    call.op = "writer"
        => IF call.log = <<>>
           THEN call.ws.forwarded = <<>> /\ ~call.ws.committed
           ELSE LET first == IF call.log[1].op = "WriteHeader"
                             THEN call.log[1].code ELSE 200
                IN /\ call.ws.forwarded = <<first>>
                   /\ call.ws.committed
                   /\ call.ws.status = first

\* Witness of C13: a body write, then the panic guard's 500; only the 200 of
\* the body write was forwarded.
C13_Witness ==
    /\ call.op = "writer"
    /\ Len(call.log) = 2
    /\ call.log[1].op = "Write"
    /\ call.log[2] = [op |-> "WriteHeader", code |-> 500]
    /\ call.ws.forwarded = <<200>>
    /\ call.ws.status = 200

----------------------------------------------------------------------------
(* The body-size guard *)

\* NewHandler with WithBodyLimit(-1), WithBodyLimit(0) and WithBodyLimit(N).
BodyConfigs ==
    {[DefaultCfg EXCEPT !.bodyLimit = l] : l \in {-1, 0, BodyLimitN}}

\* Requests with a body: the declared length (-1 when absent) and the bytes
\* the body delivers.
BodyMethods == {GET, POST}
BodyURLs == {PA}
BodyPaths == {PA, PB}
DeclaredLengths == {-1, 0, BodyLimitN, BodyLimitN + 1}
BodyLens == {0, BodyLimitN, BodyLimitN + 1, BodyLimitN + 2}

\* Handlers that read the whole body, in one Read or byte by byte, and
\* answer.
BodyScripts ==
    { <<[op |-> "ReadAll", buf |-> 512], [op |-> "Write"]>>,
      <<[op |-> "ReadAll", buf |-> 1],
        [op |-> "WriteHeader", code |-> 201]>> }

InitBody ==
    /\ exact = EmptyMap
    /\ param = EmptyMap
    /\ nreg = 0
    /\ registeredRoutes = EmptyMap
    /\ cfg \in BodyConfigs
    /\ call = NoCall

NextBody ==
    \/ \E url \in BodyURLs, m \in BodyMethods : HandlerRegister(url, m, "h1")
    \/ \E m \in BodyMethods, p \in BodyPaths, n \in DeclaredLengths,
          len \in BodyLens, script \in BodyScripts \cup {NoScript} :
          DoServeHTTP([method |-> m, path |-> p, contentLength |-> n,
                       bodyLen |-> len], script)
    \/ DoReturn

SpecBody == InitBody /\ [][NextBody]_vars

\* C14: a request is answered 413 by the guard iff the limit is positive
\* and the declared content length exceeds it; the rejection comes before
\* any router lookup, handler or not-found handler, whatever the method and
\* the path; with a limit of zero or less no request is rejected and no
\* read of the body is limited.
C14_RejectedIffDeclaredOver ==
    call.op = "ServeHTTP"
        => LET over == cfg.bodyLimit > 0
                          /\ call.contentLength > cfg.bodyLimit
           IN /\ (FinalStatus(call.ws) = 413) <=> over
              /\ over => /\ call.lookups = 0
                         /\ call.invoked = <<>>
                         /\ call.notFound = 0
                         /\ call.reads = <<>>
                         /\ call.ws.body = <<"Request body too large">>
              /\ cfg.bodyLimit <= 0
                    => \A i \in 1..Len(call.reads) :
                          call.reads[i] = [n |-> call.bodyLen, err |-> "nil"]

\* Witness of C14: a request declaring N + 1 bytes under the limit N is
\* answered 413 on a path whose route would have matched.
C14_Witness ==
    /\ call.op = "ServeHTTP"
    /\ cfg.bodyLimit = BodyLimitN
    /\ call.contentLength = BodyLimitN + 1
    /\ Routed(call.method, call.path)
    /\ call.ws.status = 413
    /\ call.lookups = 0
    /\ call.invoked = <<>>

\* C15: with a limit N > 0 and a declared length that is absent or at most
\* N, a request with a matching route reaches its handler; a body of at
\* most N bytes is read whole without error; of a longer body the handler
\* obtains N bytes and the read fails.
C15_ReadLimited ==
    (/\ call.op = "ServeHTTP"
     /\ cfg.bodyLimit > 0
     /\ call.contentLength <= cfg.bodyLimit
     /\ Routed(call.method, call.path))
        => /\ Len(call.invoked) = 1
           /\ Len(call.reads) = 1
           /\ IF call.bodyLen <= cfg.bodyLimit
              THEN call.reads[1] = [n |-> call.bodyLen, err |-> "nil"]
              ELSE call.reads[1] = [n |-> cfg.bodyLimit, err |-> "too large"]

\* Witness of C15: a body of N + 1 bytes with no declared length reached the
\* handler, whose read failed after N bytes.
C15_Witness ==
    /\ call.op = "ServeHTTP"
    /\ cfg.bodyLimit = BodyLimitN
    /\ call.contentLength = -1
    /\ call.bodyLen = BodyLimitN + 1
    /\ Len(call.invoked) = 1
    /\ call.reads = <<[n |-> BodyLimitN, err |-> "too large"]>>

----------------------------------------------------------------------------
(* Registration and removal of routes *)

\* The pair has an entry in the router r.
RegisteredIn(r, method, pattern) ==
    \/ method \in DOMAIN r.exact /\ pattern \in DOMAIN r.exact[method]
    \/ /\ method \in DOMAIN r.param
       /\ \E i \in 1..Len(r.param[method]) :
             r.param[method][i].pattern = pattern

\* The lists MethodsFor may return on the router r for the path.
MethodLists(r, path) ==
    {MethodsFor(r, path, iter) : iter \in Perms(leftover(collected(r, path)))}

\* Match and MethodsFor answer the same on the routers r1 and r2 for the
\* requests of the given methods and paths.
SameAnswers(r1, r2, methods, paths) ==
    /\ \A m \in methods, path \in paths :
          Match(r1, m, path) = Match(r2, m, path)
    /\ \A path \in paths : MethodLists(r1, path) = MethodLists(r2, path)

\* The pattern of the route that answers the request on the router r (the
\* empty string when none does).
ServingPattern(r, method, path) ==
    IF method \in DOMAIN r.exact /\ path \in DOMAIN r.exact[method]
    THEN path
    ELSE LET entries == IF method \in DOMAIN r.param THEN r.param[method]
                        ELSE <<>>
             c == {i \in 1..Len(entries) : match(entries[i].segs, path) # Nil}
         IN IF c = {} THEN <<>>
            ELSE entries[CHOOSE i \in c : \A j \in c : i <= j].pattern

\* The pattern strings of the parameterized entries of a method, in order.
PatternsOf(r, method) ==
    IF method \in DOMAIN r.param
    THEN [i \in 1..Len(r.param[method]) |-> r.param[method][i].pattern]
    ELSE <<>>

\* C17: in every router state reached by Register and Unregister calls each
\* (method, pattern string) has at most one entry: the exact table is a map
\* from pattern to handler, and no two entries of the parameterized list of
\* a method carry the same pattern string.
C17_OneEntryPerPattern ==
    \A m \in DOMAIN param :
       \A i, j \in 1..Len(param[m]) :
          param[m][i].pattern = param[m][j].pattern => i = j

----------------------------------------------------------------------------
(* The router with the arguments Register treats as no route *)

HistoryMethods == {GET, POST, <<>>}
HistoryPatterns == {PA, PAX, PABrX, <<>>}
HistoryHandlers == {"h1", "h2", NoHandler}
HistoryPaths == {PA, PA1, PB}
ObservedMethods == {GET, POST, HEAD, OPTIONS}

NextHistory ==
    \/ \E m \in HistoryMethods, p \in HistoryPatterns, h \in HistoryHandlers :
          DoRegister(m, p, h)
    \/ \E m \in HistoryMethods, p \in HistoryPatterns : DoUnregister(m, p)
    \/ DoReturn

SpecHistory == InitRouter /\ [][NextHistory]_vars

\* C16: after Register(m, p, h2) on a router that holds (m, p) already, the
\* requests that the route of p answered are answered by h2, and the
\* parameterized routes of m keep their pattern strings and their order
\* (the entry is replaced in place).
C16_ReRegisterReplaces ==
    (/\ call.op = "Register"
     /\ call.method # <<>> /\ call.pattern # <<>> /\ call.h # NoHandler
     /\ RegisteredIn(call.before, call.method, call.pattern))
        => /\ \A path \in HistoryPaths :
                 ServingPattern(call.before, call.method, path) = call.pattern
                    => /\ Match(R, call.method, path).found
                       /\ Match(R, call.method, path).h = call.h
           /\ PatternsOf(R, call.method)
                 = PatternsOf(call.before, call.method)

\* C18: Register of a pair that is not registered, followed by Unregister of
\* the pair, leaves a router on which the pair is not registered and Match
\* and MethodsFor answer every request as before the Register.
C18_RegisterUnregisterRestores ==
    (/\ call.op = "Unregister"
     /\ call.undone # <<>>
     /\ ~RegisteredIn(call.undone[1], call.method, call.pattern))
        => /\ ~RegisteredIn(R, call.method, call.pattern)
           /\ SameAnswers(R, call.undone[1], ObservedMethods, HistoryPaths)

\* Witness of C18: the brace route /a/{x} was registered, answered /a/1,
\* and was unregistered; /a/1 is no longer answered.
C18_Witness ==
    /\ call.op = "Unregister"
    /\ call.undone # <<>>
    /\ call.pattern = PABrX
    /\ ~Match(call.undone[1], call.method, PA1).found
    /\ Match(call.before, call.method, PA1).found
    /\ ~Match(R, call.method, PA1).found

\* C20: Register with an empty method, an empty pattern or a nil handler
\* returns no error and leaves both route tables as they were, so that
\* Match and MethodsFor answer every request as before.
C20_RegisterIgnoresEmpty ==
    (/\ call.op = "Register"
     /\ call.method = <<>> \/ call.pattern = <<>> \/ call.h = NoHandler)
        => /\ call.err = "nil"
           /\ R = call.before
           /\ SameAnswers(R, call.before, ObservedMethods \cup {<<>>},
                          HistoryPaths \cup {<<>>})

\* Witness of C20: Register(GET, /a/:x, nil) returned on a router that holds
\* a route and left it unchanged.
C20_Witness ==
    /\ call.op = "Register"
    /\ call.method = GET /\ call.pattern = PAX /\ call.h = NoHandler
    /\ RegisteredIn(call.before, GET, PA)
    /\ R = call.before

----------------------------------------------------------------------------
(* Removal through the dispatch handler *)

\* C19: Unregister of a pair that is registered neither in the router nor in
\* the index of the dispatch handler leaves both as they were: Match and
\* MethodsFor answer every request as before and the index is unchanged.
C19_UnregisterUnknownNoOp ==
    (/\ call.op = "HandlerUnregister"
     /\ ~RegisteredIn(call.before, call.method, call.path)
     /\ ~(/\ call.path \in DOMAIN call.beforeIndex
          /\ call.method \in call.beforeIndex[call.path]))
        => /\ R = call.before
           /\ SameAnswers(R, call.before, RequestMethods, RequestPaths)
           /\ registeredRoutes = call.beforeIndex

\* Witness of C19: Unregister of a method that is not registered on a path
\* whose index entry holds another method.
C19_Witness ==
    /\ call.op = "HandlerUnregister"
    /\ call.path \in DOMAIN call.beforeIndex
    /\ call.method \notin call.beforeIndex[call.path]
    /\ ~RegisteredIn(call.before, call.method, call.path)
    /\ registeredRoutes = call.beforeIndex
    /\ R = call.before

----------------------------------------------------------------------------
(* The dispatch handler over a router that holds routes of its own *)

\* Routes registered on the router passed with WithRouter, by calls of its
\* Register, and the requests served by the dispatch handler over it.
DirectMethods == {GET, POST}
DirectPatterns == {PA, PAX}
DirectRequestMethods == {GET, POST, HEAD, OPTIONS}
DirectPaths == {PA, PA1, PB}
DirectScripts == {<<[op |-> "Write"]>>}

NextDirect ==
    \/ \E m \in DirectMethods, p \in DirectPatterns : DoRegister(m, p, "h1")
    \/ \E m \in DirectRequestMethods, p \in DirectPaths,
          script \in DirectScripts \cup {NoScript} :
          DoServeHTTP([method |-> m, path |-> p, contentLength |-> 0,
                       bodyLen |-> 0], script)
    \/ DoReturn

SpecDirect == InitRouter /\ [][NextDirect]_vars

\* C21: over a router that exposes MethodsFor, a request that resolves to no
\* route while the router holds a route of another method for its path is
\* answered 405 with the Allow header set to the router's MethodsFor list,
\* also when the route was registered on the router directly.
C21_NotAllowedFromRouter ==
    (/\ Unresolved
     /\ cfg.introspect
     /\ \E m \in U(call.path) : m # call.method)
        => /\ FinalStatus(call.ws) = 405
           /\ "Allow" \in DOMAIN FinalHeaders(call.ws)
           /\ \E list \in MethodLists(R, call.path) :
                 FinalHeaders(call.ws)["Allow"] = Join(list)

----------------------------------------------------------------------------
(* The index of the dispatch handler against the router *)

\* Endpoints as NewEndpoint builds them: any URL and method string, the
\* empty ones included.
IndexMethods == {GET, POST, <<>>}
IndexURLs == {PA, PAX, <<>>}

NextIndex ==
    \/ \E url \in IndexURLs, m \in IndexMethods, h \in Handlers :
          HandlerRegister(url, m, h)
    \/ \E m \in IndexMethods, p \in IndexURLs : HandlerUnregister(m, p)
    \/ DoReturn

SpecIndex == Init /\ [][NextIndex]_vars

\* C22: after any sequence of Handler.Register and Handler.Unregister calls
\* the index holds the pair (pattern, method) iff the router holds a route
\* of the method with that pattern string, and no index entry has an empty
\* method set.
C22_IndexInLockstep ==
    /\ \A url \in DOMAIN registeredRoutes : registeredRoutes[url] # {}
    /\ \A url \in IndexURLs, m \in IndexMethods :
          (url \in DOMAIN registeredRoutes /\ m \in registeredRoutes[url])
             <=> RegisteredIn(R, m, url)

----------------------------------------------------------------------------
(* Explicit OPTIONS routes *)

\* C23: an OPTIONS request whose path is matched by a registered OPTIONS
\* route runs that route's handler once, under the recoverer, with the
\* decoded query map and the path parameters in its context; the core sets
\* no Allow header and writes no 204.
C23_ExplicitOptionsRuns ==
    (/\ Admitted
     /\ call.method = OPTIONS
     /\ Routed(OPTIONS, call.path))
        => /\ call.branch = "options-explicit"
           /\ call.invoked =
                 <<[h |-> RouteHandler(OPTIONS, call.path),
                    method |-> OPTIONS,
                    params |-> IF ExactRoute(OPTIONS, call.path) THEN Nil
                               ELSE [kind |-> "map",
                                     m |-> Match(R, OPTIONS, call.path).params],
                    queryMap |-> TRUE]>>
           /\ ~call.escaped
           /\ call.notFound = 0
           /\ call.allow = <<>>
           /\ "Allow" \notin DOMAIN FinalHeaders(call.ws)
           /\ FinalStatus(call.ws) # 204

\* Witness of C23: OPTIONS /a/1 ran the handler of the OPTIONS route /a/:x
\* with x bound, while a GET route serves the path as well.
C23_Witness ==
    /\ Admitted
    /\ call.method = OPTIONS
    /\ call.path = PA1
    /\ Routed(GET, PA1)
    /\ call.branch = "options-explicit"
    /\ call.invoked[1].params # Nil
    /\ call.invoked[1].params.m[<<"x">>] = <<"1">>

----------------------------------------------------------------------------
(* endpoint/middleware.go: the middleware chain of an endpoint *)

\* A middleware is a function from the next handler to a handler. The ones
\* drawn here note their entry, call next or not, and note their exit.
MiddlewareNames == {"log", "auth"}
Middleware == [name : MiddlewareNames, callsNext : BOOLEAN]
MiddlewareLists ==
    UNION {[1..n -> Middleware] : n \in 0..MaxMiddlewares}

\* The handler Handler.Register starts from: the endpoint's own, or the
\* responder that answers Not Implemented.
baseHandler(hasHandler) ==
    [kind |-> "handler",
     name |-> IF hasHandler THEN "handler" ELSE "not-implemented"]

\* mw(next): the handler a middleware returns for next.
applyMiddleware(mw, next) == [kind |-> "wrapped", mw |-> mw, next |-> next]

\* A chain built from the first middleware to the last, which makes the
\* last one the outermost.
RECURSIVE chainFrom_Forward(_, _, _)
chainFrom_Forward(middlewares, i, wrapped) ==
    IF i < 1 THEN wrapped
    ELSE chainFrom_Forward(middlewares, i - 1,
             applyMiddleware(middlewares[Len(middlewares) + 1 - i], wrapped))

\* The loop of DefaultMiddlewares.Chain from index i down to the first.
RECURSIVE chainFrom(_, _, _)
chainFrom(middlewares, i, wrapped) ==
    IF i < 1 THEN wrapped
    ELSE chainFrom(middlewares, i - 1,
                   applyMiddleware(middlewares[i], wrapped))

\* DefaultMiddlewares.Chain
Chain(middlewares, h) == chainFrom(middlewares, Len(middlewares), h)

\* ServeHTTP of a chained handler: the sequence of entries and exits.
RECURSIVE serveChain(_)
serveChain(h) ==
    IF h.kind = "handler" THEN <<[at |-> "run", name |-> h.name]>>
    ELSE <<[at |-> "enter", name |-> h.mw.name]>>
         \o (IF h.mw.callsNext THEN serveChain(h.next) ELSE <<>>)
         \o <<[at |-> "exit", name |-> h.mw.name]>>

InitChain ==
    /\ exact = EmptyMap
    /\ param = EmptyMap
    /\ nreg = 0
    /\ registeredRoutes = EmptyMap
    /\ cfg = DefaultCfg
    /\ \E mws \in MiddlewareLists, hasHandler \in BOOLEAN :
          call = [op |-> "endpoint", middlewares |-> mws,
                  hasHandler |-> hasHandler]

\* The handler composed by Handler.Register for the endpoint serves one
\* request.
DoServeChain ==
    /\ call.op = "endpoint"
    /\ call' = [op |-> "chain", middlewares |-> call.middlewares,
                hasHandler |-> call.hasHandler,
                trace |-> serveChain(Chain(call.middlewares,
                                           baseHandler(call.hasHandler)))]
    /\ UNCHANGED <<exact, param, nreg, registeredRoutes, cfg>>

NextChain == DoServeChain

SpecChain == InitChain /\ [][NextChain]_vars

\* The number of middlewares a request enters: up to and including the
\* first one that does not call next.
Entered(mws) ==
    IF \E i \in 1..Len(mws) : ~mws[i].callsNext
    THEN CHOOSE i \in 1..Len(mws) :
             /\ ~mws[i].callsNext
             /\ \A j \in 1..(i - 1) : mws[j].callsNext
    ELSE Len(mws)

\* C24: for the middleware list m1..mn a request enters m1, m2, ... in list
\* order, reaches the handler only if every middleware calls next, and
\* unwinds in reverse order; nothing inside a middleware that does not call
\* next runs.
C24_ChainOrder ==
    call.op = "chain"
        => LET mws == call.middlewares
               k == Entered(mws)
               reached == k = Len(mws) /\ (k = 0 \/ mws[k].callsNext)
               t == call.trace
           IN /\ Len(t) = 2 * k + (IF reached THEN 1 ELSE 0)
              /\ \A i \in 1..k :
                    /\ t[i] = [at |-> "enter", name |-> mws[i].name]
                    /\ t[Len(t) + 1 - i] = [at |-> "exit", name |-> mws[i].name]
              /\ reached => t[k + 1].at = "run"

\* Witness of C24: log then auth, both calling next: enter log, enter auth,
\* handler, exit auth, exit log.
C24_Witness ==
    /\ call.op = "chain"
    /\ call.trace = <<[at |-> "enter", name |-> "log"],
                      [at |-> "enter", name |-> "auth"],
                      [at |-> "run", name |-> "handler"],
                      [at |-> "exit", name |-> "auth"],
                      [at |-> "exit", name |-> "log"]>>

----------------------------------------------------------------------------
(* Serving reads the routing state only *)

\* C25: serving a request (ServeHTTP with Match, MethodsFor, allowedMethods
\* and isMethodNotAllowed) changes neither table of the router nor the
\* index of the dispatch handler.
C25_ServingLeavesRoutes ==
    [][call'.op = "ServeHTTP"
          => /\ exact' = exact
             /\ param' = param
             /\ registeredRoutes' = registeredRoutes]_vars

\* Witness of C25: a request answered 405, which read the router and the
\* index, over a router that holds an exact and a parameterized route.
C25_Witness ==
    /\ call.op = "ServeHTTP"
    /\ call.branch = "405"
    /\ DOMAIN exact # {}
    /\ DOMAIN param # {}
    /\ DOMAIN registeredRoutes # {}

----------------------------------------------------------------------------
(* The lock of the index: goroutines calling the dispatch handler *)

Threads == 1..MaxThreads

\* The operations that touch h.registeredRoutes.
LockedOps == {"Register", "Unregister", "isMethodNotAllowed", "allowedMethods"}
LockMethods == {GET, POST}
LockPaths == {PA}

\* What the operation does to the index between its lock and its unlock.
accessKind(op) ==
    IF op \in {"Register", "Unregister"} THEN "write" ELSE "read"

\* The lock taken with RLock in Unregister as well.
lockKind_ReadInUnregister(op) ==
    IF op = "Register" THEN "write" ELSE "read"

\* The lock each operation takes on h.routesMu: Lock in Register and
\* Unregister, RLock in isMethodNotAllowed and allowedMethods.
lockKind(op) ==
    IF op \in {"Register", "Unregister"} THEN "write" ELSE "read"

\* sync.RWMutex: writer is the goroutine holding Lock (0 when none),
\* readers the goroutines holding RLock.
NoLock == [writer |-> 0, readers |-> {}]
canLock(mu) == mu.writer = 0 /\ mu.readers = {}
canRLock(mu) == mu.writer = 0

Idle == [at |-> "idle"]

InitLocks ==
    /\ exact = EmptyMap
    /\ param = EmptyMap
    /\ nreg = 0
    /\ registeredRoutes = EmptyMap
    /\ cfg = [DefaultCfg EXCEPT !.introspect = FALSE]
    /\ call = [op |-> "threads", mu |-> NoLock, th |-> [t \in Threads |-> Idle]]

\* A goroutine enters an operation and runs it up to its lock call:
\* Register and Unregister have made their router call by then.
ThreadBegin(t, op, method, path) ==
    /\ call.op = "threads"
    /\ call.th[t] = Idle
    /\ op = "Register" => nreg < MaxEndpoints
    /\ LET r2 == CASE op = "Register" ->
                       Register(R, method, path, "h1", nreg + 1)
                    [] op = "Unregister" -> Unregister(R, method, path)
                    [] OTHER -> R
       IN exact' = r2.exact /\ param' = r2.param
    /\ nreg' = IF op = "Register" THEN nreg + 1 ELSE nreg
    /\ call' = [call EXCEPT !.th[t] = [at |-> "locking", op |-> op,
                                        method |-> method, path |-> path]]
    /\ UNCHANGED <<registeredRoutes, cfg>>

\* Lock or RLock returns.
ThreadAcquire(t) ==
    /\ call.op = "threads"
    /\ call.th[t].at = "locking"
    /\ IF lockKind(call.th[t].op) = "write"
       THEN /\ canLock(call.mu)
            /\ call' = [call EXCEPT !.th[t].at = "holding", !.mu.writer = t]
       ELSE /\ canRLock(call.mu)
            /\ call' = [call EXCEPT !.th[t].at = "holding",
                                    !.mu.readers = @ \cup {t}]
    /\ UNCHANGED <<exact, param, nreg, registeredRoutes, cfg>>

\* The statements between the lock and the unlock.
ThreadAccess(t) ==
    /\ call.op = "threads"
    /\ call.th[t].at = "holding"
    /\ registeredRoutes' =
          CASE call.th[t].op = "Register" ->
                  indexAdd(registeredRoutes, call.th[t].path, call.th[t].method)
            [] call.th[t].op = "Unregister" ->
                  indexRemove(registeredRoutes, call.th[t].method,
                              call.th[t].path)
            [] OTHER -> registeredRoutes
    /\ call' = [call EXCEPT !.th[t].at = "unlocking"]
    /\ UNCHANGED <<exact, param, nreg, cfg>>

\* Unlock or RUnlock, and the operation returns.
ThreadRelease(t) ==
    /\ call.op = "threads"
    /\ call.th[t].at = "unlocking"
    /\ call' = [call EXCEPT
                  !.th[t] = Idle,
                  !.mu.writer = IF @ = t THEN 0 ELSE @,
                  !.mu.readers = @ \ {t}]
    /\ UNCHANGED <<exact, param, nreg, registeredRoutes, cfg>>

NextLocks ==
    \E t \in Threads :
       \/ \E op \in LockedOps, m \in LockMethods, p \in LockPaths :
             ThreadBegin(t, op, m, p)
       \/ ThreadAcquire(t)
       \/ ThreadAccess(t)
       \/ ThreadRelease(t)

SpecLocks == InitLocks /\ [][NextLocks]_vars

\* The goroutine is between its lock call and its unlock call.
InSection(t) == call.th[t].at \in {"holding", "unlocking"}

\* C26: a goroutine that reads the index holds the read lock and one that
\* writes it holds the write lock; so while a goroutine writes the index no
\* other goroutine reads or writes it.
C26_IndexUnderLock ==
    call.op = "threads"
        => /\ \A t \in Threads :
                 InSection(t)
                    => IF accessKind(call.th[t].op) = "write"
                       THEN call.mu.writer = t /\ call.mu.readers = {}
                       ELSE t \in call.mu.readers /\ call.mu.writer = 0
           /\ \A t, u \in Threads :
                 (t # u /\ InSection(t) /\ InSection(u))
                    => /\ accessKind(call.th[t].op) = "read"
                       /\ accessKind(call.th[u].op) = "read"

\* Witness of C26: Register holds the write lock while a request's
\* isMethodNotAllowed waits for the read lock.
C26_Witness ==
    /\ call.op = "threads"
    /\ \E t, u \in Threads :
          /\ call.th[t].at = "holding" /\ call.th[t].op = "Register"
          /\ call.mu.writer = t
          /\ call.th[u].at = "locking"
          /\ call.th[u].op = "isMethodNotAllowed"

----------------------------------------------------------------------------
(* Requests served concurrently *)

ServingURLs == {PA}
ServingMethods == {GET}
ServingRequestMethods == {GET, HEAD, POST}
ServingPaths == {PA, PB}
ServingScripts ==
    { <<[op |-> "Write"]>>,
      <<[op |-> "WriteHeader", code |-> 201], [op |-> "Write"]>>,
      <<[op |-> "panic", value |-> "boom"]>>,
      <<[op |-> "Write"], [op |-> "panic", value |-> "boom"]>> }

\* The server starts to listen: from now on each request is served by a
\* goroutine of its own and no route is added or removed by a caller; the
\* routes and the index of this moment are kept for comparison.
StartServing ==
    /\ call = NoCall
    /\ call' = [op |-> "serving", th |-> [t \in Threads |-> Idle],
                routes |-> R, index |-> registeredRoutes]
    /\ UNCHANGED <<exact, param, nreg, registeredRoutes, cfg>>

\* The goroutine of a request runs ServeHTTP up to the call of the resolved
\* handler, or to its end when no handler is resolved.
ServeBegin(t, req, script) ==
    /\ call.op = "serving"
    /\ call.th[t] = Idle
    /\ script = NoScript <=> ~RunsHandler(R, cfg, req)
    /\ \E iter \in Perms(leftover(allowedSet(R, registeredRoutes, cfg,
                                               req.path))) :
          call' = [call EXCEPT !.th[t] =
                      IF script = NoScript
                      THEN [at |-> "done", req |-> req, script |-> script,
                            ws |-> ServeHTTP(R, registeredRoutes, cfg, req,
                                             script, iter).ws]
                      ELSE [at |-> "running", req |-> req, script |-> script,
                            i |-> 1, ws |-> newTrackingResponseWriter]]
    /\ UNCHANGED <<exact, param, nreg, registeredRoutes, cfg>>

\* A panic recovered by writing the 500 on the writer of every request in
\* flight.
stepRequest_SharedGuard(th, t, c) ==
    LET s == th[t]
        discard == s.req.method = HEAD
        rd == bodyReader(c, s.req)
    IN IF s.i > Len(s.script) THEN [th EXCEPT ![t].at = "done"]
       ELSE LET run == runHandler(<<s.script[s.i]>>, 1,
                                  [ws |-> s.ws, rd |-> rd, reads |-> <<>>],
                                  discard)
            IN IF run.panicked
               THEN [u \in DOMAIN th |->
                        IF u = t
                        THEN [s EXCEPT !.at = "done",
                                       !.ws = recoverer(run).ws]
                        ELSE IF th[u].at = "running"
                        THEN [th[u] EXCEPT
                                 !.ws = HttpError(@, "Internal Server Error",
                                                  500)]
                        ELSE th[u]]
               ELSE [th EXCEPT ![t].ws = run.ws, ![t].i = s.i + 1]

\* One step of the goroutine of request t inside the recoverer: the next
\* call of the handler on the writer of this request; a panic is recovered
\* on this writer and ends the request.
stepRequest(th, t, c) ==
    LET s == th[t]
        discard == s.req.method = HEAD
        rd == bodyReader(c, s.req)
    IN IF s.i > Len(s.script) THEN [th EXCEPT ![t].at = "done"]
       ELSE LET run == runHandler(<<s.script[s.i]>>, 1,
                                  [ws |-> s.ws, rd |-> rd, reads |-> <<>>],
                                  discard)
            IN IF run.panicked
               THEN [th EXCEPT ![t].at = "done", ![t].ws = recoverer(run).ws]
               ELSE [th EXCEPT ![t].ws = run.ws, ![t].i = s.i + 1]

ServeStep(t) ==
    /\ call.op = "serving"
    /\ call.th[t].at = "running"
    /\ call' = [call EXCEPT !.th = stepRequest(call.th, t, cfg)]
    /\ UNCHANGED <<exact, param, nreg, registeredRoutes, cfg>>

\* ServeHTTP returns and the response is complete.
ServeEnd(t) ==
    /\ call.op = "serving"
    /\ call.th[t].at = "done"
    /\ call' = [call EXCEPT !.th[t] = Idle]
    /\ UNCHANGED <<exact, param, nreg, registeredRoutes, cfg>>

NextServing ==
    \/ \E url \in ServingURLs, m \in ServingMethods : HandlerRegister(url, m, "h1")
    \/ StartServing
    \/ \E t \in Threads :
          \/ \E m \in ServingRequestMethods, p \in ServingPaths,
                script \in ServingScripts \cup {NoScript} :
                ServeBegin(t, [method |-> m, path |-> p, contentLength |-> 0,
                               bodyLen |-> 0], script)
          \/ ServeStep(t)
          \/ ServeEnd(t)

\* A handler with the default configuration and no route yet.
InitServing == Init /\ cfg = DefaultCfg

SpecServing == InitServing /\ [][NextServing]_vars

\* Every request that has ended holds the response that ServeHTTP gives it
\* when it is served alone on the same routes.
EndsAsAlone ==
    \A t \in Threads :
       call.th[t].at = "done"
          => \A iter \in Perms(leftover(allowedSet(R, registeredRoutes, cfg,
                                                  call.th[t].req.path))) :
                call.th[t].ws =
                   ServeHTTP(R, registeredRoutes, cfg, call.th[t].req,
                             call.th[t].script, iter).ws

\* C27: whatever the other requests in flight do, a panic included, the
\* routes and the index stay as they were when serving began, and a request
\* ends with the status, headers and body it gets when it is served alone
\* on the same routes.
C27_PanicIsolated ==
    call.op = "serving"
        => /\ R = call.routes
           /\ registeredRoutes = call.index
           /\ EndsAsAlone

\* Witness of C27: one request ended in the recovered panic of its handler
\* while another one, whose handler had written its body, ended with 200.
C27_Witness ==
    /\ call.op = "serving"
    /\ \E t, u \in Threads :
          /\ call.th[t].at = "done"
          /\ call.th[t].script = <<[op |-> "panic", value |-> "boom"]>>
          /\ call.th[t].ws.status = 500
          /\ call.th[u].at = "done"
          /\ call.th[u].script = <<[op |-> "Write"]>>
          /\ call.th[u].ws.status = 200
          /\ call.th[u].ws.body = <<"body">>

----------------------------------------------------------------------------
(* What Unregister removes *)

\* A list without its first entry of the given pattern.
RECURSIVE withoutFirst(_, _)
withoutFirst(entries, pattern) ==
    IF entries = <<>> THEN <<>>
    ELSE IF entries[1].pattern = pattern THEN Tail(entries)
         ELSE <<entries[1]>> \o withoutFirst(Tail(entries), pattern)

\* The parameterized entries of a method, none when the method has no list.
EntriesOf(r, method) ==
    IF method \in DOMAIN r.param THEN r.param[method] ELSE <<>>

\* The exact patterns of a method with their handlers.
ExactOf(r, method) ==
    IF method \in DOMAIN r.exact
    THEN {<<p, r.exact[method][p]>> : p \in DOMAIN r.exact[method]}
    ELSE {}

\* C28: Unregister returns no error, removes the exact entry of the pair and
\* the first parameterized entry of the method with that pattern, and leaves
\* every other entry where it was.
C28_UnregisterRemovesFirst ==
    call.op = "Unregister"
        => /\ call.err = "nil"
           /\ \A m \in RouterMethods :
                 /\ EntriesOf(R, m) =
                       IF m = call.method
                       THEN withoutFirst(EntriesOf(call.before, m),
                                         call.pattern)
                       ELSE EntriesOf(call.before, m)
                 /\ ExactOf(R, m) =
                       IF m = call.method
                       THEN {e \in ExactOf(call.before, m) :
                                e[1] # call.pattern}
                       ELSE ExactOf(call.before, m)

----------------------------------------------------------------------------
(* OPTIONS on a path without allowed methods *)

\* C29: an OPTIONS request whose path has no OPTIONS route and an empty
\* allowed-methods list ends in the not-found handler, with neither a 204
\* nor a 405.
C29_OptionsUnknownNotFound ==
    (/\ Admitted
     /\ call.method = OPTIONS
     /\ ~Routed(OPTIONS, call.path)
     /\ AllowLists(call.path) = {<<>>})
        => /\ call.notFound = 1
           /\ FinalStatus(call.ws) \notin {204, 405}

----------------------------------------------------------------------------
(* The index fallback against the router *)

\* The lists the index fallback of allowedMethods may return for the path.
FallbackLists(idx, path) ==
    {stableAllow(indexMethods(idx, path), iter) :
        iter \in Perms(leftover(indexMethods(idx, path)))}

\* C30: with routes registered through Handler.Register, the index fallback
\* of allowedMethods yields for every path the list of MethodsFor on the
\* router.
C30_FallbackAgreesWithRouter ==
    \A path \in RequestPaths :
       FallbackLists(registeredRoutes, path) = MethodLists(R, path)

----------------------------------------------------------------------------
(* Splitting of patterns and paths *)

\* A string without one leading and one trailing slash.
stripOne(s) ==
    LET t == IF s # <<>> /\ s[1] = "/" THEN Tail(s) ELSE s
    IN IF t # <<>> /\ t[Len(t)] = "/" THEN SubSeq(t, 1, Len(t) - 1) ELSE t

\* C31: splitPath strips one leading and one trailing slash and splits the
\* rest on slashes, so a path with further leading or trailing slashes keeps
\* its empty segments and the one-segment pattern /:x does not match it.
C31_SplitStripsOneSlash ==
    call.op = "match"
        => /\ splitPath(call.path) = Split(stripOne(call.path))
           /\ splitPath(call.pattern) = Split(stripOne(call.pattern))
           /\ (call.pattern = PX /\ Len(Split(stripOne(call.path))) # 1)
                  => call.res = Nil

----------------------------------------------------------------------------
(* Patterns with malformed brace segments *)

PBr      == <<"/", "{", "}">>
PBrOpen  == <<"/", "{", "x">>
PBrClose == <<"/", "x", "}">>
PBrLone  == <<"/", "{">>
PBrX     == <<"/", "{", "x", "}">>
BracePatterns == {PBr, PBrOpen, PBrClose, PBrLone, PBrX}
BraceAlphabet == {"{", "}", "x", "a"}
BracePaths ==
    {<<"/">> \o s : s \in UNION {[1..n -> BraceAlphabet] :
                                    n \in 0..(MaxLen - 1)}}

NextBrace ==
    \/ \E p \in BracePatterns : DoRegister(GET, p, "h1")
    \/ \E p \in BracePaths : DoMatch(GET, p)
    \/ DoReturn

SpecBrace == InitRouter /\ [][NextBrace]_vars

\* A segment is a parameter: a colon and a name, or a name in braces.
namedParam(s) ==
    \/ Len(s) > 0 /\ s[1] = ":"
    \/ Len(s) > 2 /\ s[1] = "{" /\ s[Len(s)] = "}"

\* The pattern matches the path when every segment that is not a parameter
\* is taken as literal text.
literalRule(pattern, path) ==
    LET pp == splitPath(pattern)
        qq == splitPath(path)
    IN /\ Len(pp) = Len(qq)
       /\ \A i \in 1..Len(pp) :
             IF namedParam(pp[i]) THEN qq[i] # <<>> ELSE pp[i] = qq[i]

\* C32: a malformed brace segment of a registered pattern ({} included) is
\* literal text: Match finds a route iff a registered pattern matches the
\* path with such segments compared as text, and binds no parameter for
\* them.
C32_MalformedBraceIsLiteral ==
    call.op = "Match"
        => /\ call.res.found
                 <=> \E pat \in BracePatterns :
                        /\ RegisteredIn(R, call.method, pat)
                        /\ literalRule(pat, call.path)
           /\ call.res.found => <<>> \notin DOMAIN call.res.params

----------------------------------------------------------------------------
(* The event of a recovered panic *)

\* C33: a call whose handler panicked emits exactly one panic event, and
\* the event carries the panic value and a snapshot of the call stack.
C33_PanicEventHasStack ==
    (Invoked /\ PanicAt(call.script) # 0)
        => /\ Len(call.events) = 1
           /\ call.events[1].type = "event_panic"
           /\ "panic" \in DOMAIN call.events[1]
           /\ call.events[1].panic = call.script[PanicAt(call.script)].value
           /\ "stack" \in DOMAIN call.events[1]

----------------------------------------------------------------------------
(* pureapi.go: the Server facade and its registered endpoints *)

FacadeMethods == {GET, POST}
FacadePaths == {PA, PB}
FacadeURLs == {PA, PB, PAX}
FacadeHandlers == {"h1", "h2"}
FacadeMiddlewares == {<<>>, <<"log">>}

\* The handler Handler.Register composes for an endpoint: its own handler,
\* wrapped by its middlewares when it has some.
composed(ep) ==
    IF ep.middlewares = <<>> THEN ep.h
    ELSE IF ep.h = "h1" THEN "log(h1)" ELSE "log(h2)"

\* Handler.Register of one endpoint on the pair [r, idx]; t is the stamp of
\* the router call.
registerEndpoint(st, ep, t) ==
    [r |-> Register(st.r, ep.method, ep.url, composed(ep), t),
     idx |-> indexAdd(st.idx, ep.url, ep.method)]

\* Handler.Unregister on the pair [r, idx].
unregisterRoute(st, method, url) ==
    [r |-> Unregister(st.r, method, url),
     idx |-> indexRemove(st.idx, method, url)]

\* An update that registers the changed endpoint and leaves the old
\* registration in place.
replaceRegistration_NoUnregister(st, old, new, t) ==
    registerEndpoint(st, new, t)

\* The body shared by WithURL, WithMethod, WithMiddlewares and WithHandler:
\* the old pair is unregistered, the changed endpoint registered.
replaceRegistration(st, old, new, t) ==
    registerEndpoint(unregisterRoute(st, old.method, old.url), new, t)

InitServer ==
    /\ exact = EmptyMap
    /\ param = EmptyMap
    /\ nreg = 0
    /\ registeredRoutes = EmptyMap
    /\ cfg = DefaultCfg
    /\ call = [op |-> "server", eps |-> <<>>, updated |-> 0]

\* Server.Get, Server.Post: a new endpoint is registered and its handle
\* returned.
ServerRoute(method, path, fn) ==
    /\ call.op = "server"
    /\ Len(call.eps) < MaxEndpoints
    /\ LET ep == [method |-> method, url |-> path, h |-> fn,
                  middlewares |-> <<>>]
           st == registerEndpoint([r |-> R, idx |-> registeredRoutes], ep,
                                  nreg + 1)
       IN /\ exact' = st.r.exact
          /\ param' = st.r.param
          /\ registeredRoutes' = st.idx
          /\ call' = [op |-> "server", eps |-> Append(call.eps, ep),
                      updated |-> 0]
    /\ nreg' = nreg + 1
    /\ UNCHANGED cfg

\* One of the four updates on the handle i, which gives the endpoint new.
UpdateEndpoint(i, new) ==
    /\ call.op = "server"
    /\ i \in 1..Len(call.eps)
    /\ nreg < MaxEndpoints + MaxUpdates
    /\ LET st == replaceRegistration([r |-> R, idx |-> registeredRoutes],
                                     call.eps[i], new, nreg + 1)
       IN /\ exact' = st.r.exact
          /\ param' = st.r.param
          /\ registeredRoutes' = st.idx
    /\ call' = [op |-> "server", eps |-> [call.eps EXCEPT ![i] = new],
                updated |-> i, old |-> call.eps[i], before |-> R,
                beforeIndex |-> registeredRoutes]
    /\ nreg' = nreg + 1
    /\ UNCHANGED cfg

WithURL(i, u) ==
    /\ call.op = "server" /\ i \in 1..Len(call.eps)
    /\ UpdateEndpoint(i, [call.eps[i] EXCEPT !.url = u])

WithMethod(i, m) ==
    /\ call.op = "server" /\ i \in 1..Len(call.eps)
    /\ UpdateEndpoint(i, [call.eps[i] EXCEPT !.method = m])

WithMiddlewares(i, m) ==
    /\ call.op = "server" /\ i \in 1..Len(call.eps)
    /\ UpdateEndpoint(i, [call.eps[i] EXCEPT !.middlewares = m])

WithHandler(i, h) ==
    /\ call.op = "server" /\ i \in 1..Len(call.eps)
    /\ UpdateEndpoint(i, [call.eps[i] EXCEPT !.h = h])

NextServer ==
    \/ \E m \in FacadeMethods, p \in FacadePaths : ServerRoute(m, p, "h1")
    \/ \E i \in 1..MaxEndpoints :
          \/ \E u \in FacadeURLs : WithURL(i, u)
          \/ \E m \in FacadeMethods : WithMethod(i, m)
          \/ \E m \in FacadeMiddlewares : WithMiddlewares(i, m)
          \/ \E h \in FacadeHandlers : WithHandler(i, h)

SpecServer == InitServer /\ [][NextServer]_vars

\* A concrete path of the URL of an endpoint.
concrete(url) == IF url = PAX THEN PA1 ELSE url

\* What the router answers for the pair of an endpoint.
RouteOf(r, ep) == Match(r, ep.method, concrete(ep.url))

\* The number of registrations the router holds for a pair.
Registrations(r, method, url) ==
    (IF method \in DOMAIN r.exact /\ url \in DOMAIN r.exact[method]
     THEN 1 ELSE 0)
    + Cardinality({k \in 1..Len(EntriesOf(r, method)) :
                      EntriesOf(r, method)[k].pattern = url})

SamePair(e, f) == e.method = f.method /\ e.url = f.url

\* The last update replaced the registration of its endpoint and left the
\* other endpoints as they were.
Replaced ==
    LET i == call.updated
        old == call.old
        new == call.eps[i]
    IN /\ (~SamePair(old, new) \/ composed(old) # composed(new))
             => ~(RouteOf(R, old).found /\ RouteOf(R, old).h = composed(old))
       /\ RouteOf(R, new).found /\ RouteOf(R, new).h = composed(new)
       /\ Registrations(R, new.method, new.url) = 1
       /\ new.url \in DOMAIN registeredRoutes
       /\ new.method \in registeredRoutes[new.url]
       /\ \A j \in 1..Len(call.eps) :
             j # i
                => /\ RouteOf(R, call.eps[j])
                         = RouteOf(call.before, call.eps[j])
                   /\ (/\ call.eps[j].url \in DOMAIN registeredRoutes
                       /\ call.eps[j].method
                              \in registeredRoutes[call.eps[j].url])
                         <=> (/\ call.eps[j].url \in DOMAIN call.beforeIndex
                              /\ call.eps[j].method
                                     \in call.beforeIndex[call.eps[j].url])

Unshared ==
    \A j \in 1..Len(call.eps) :
       j # call.updated
          => /\ ~SamePair(call.eps[j], call.old)
             /\ ~SamePair(call.eps[j], call.eps[call.updated])

----------------------------------------------------------------------------
(* The typed endpoint pipeline: handleOutput *)

\* The http.ResponseWriter under the pipeline: the WriteHeader calls that
\* reached it, the status it committed (0: none) and the body.
newResponse == [calls |-> <<>>, status |-> 0, body |-> <<>>]

\* trackingWriter of the pipeline over the response w.
newTrackingWriter == [w |-> newResponse, wrote |-> FALSE]

twWriteHeader(tw, code) ==
    IF ~tw.wrote
    THEN [w |-> [tw.w EXCEPT !.calls = Append(@, code),
                             !.status = IF @ = 0 THEN code ELSE @],
          wrote |-> TRUE]
    ELSE tw

\* A Write that forwards the bytes and does not note them.
twWrite_Untracked(tw) ==
    [w |-> [tw.w EXCEPT !.status = IF @ = 0 THEN 200 ELSE @,
                        !.body = Append(@, "body")],
     wrote |-> tw.wrote]

\* trackingWriter.Write: the response commits 200 when no status was sent.
twWrite(tw) ==
    [w |-> [tw.w EXCEPT !.status = IF @ = 0 THEN 200 ELSE @,
                        !.body = Append(@, "body")],
     wrote |-> TRUE]

\* The calls of an output handler on the writer it is given, from call i.
RECURSIVE runOutput(_, _, _)
runOutput(script, i, tw) ==
    IF i > Len(script) THEN tw
    ELSE runOutput(script, i + 1,
                   IF script[i].op = "WriteHeader"
                   THEN twWriteHeader(tw, script[i].code)
                   ELSE IF script[i].op = "Write" THEN twWrite(tw)
                   ELSE tw)

\* handleOutput: the output handler runs on a tracking writer; when it
\* returns an error, the error is emitted and a 500 written unless the
\* writer was written to.
handleOutput(script, err) ==
    LET tw == runOutput(script, 1, newTrackingWriter)
    IN IF err # "nil"
       THEN [tw |-> IF ~tw.wrote THEN twWriteHeader(tw, 500) ELSE tw,
             events |-> <<[type |-> "event_output_error", err |-> err]>>]
       ELSE [tw |-> tw, events |-> <<>>]

OutputCalls ==
    {[op |-> "Set"], [op |-> "Write"], [op |-> "WriteHeader", code |-> 200],
     [op |-> "WriteHeader", code |-> 404]}
OutputScripts == UNION {[1..n -> OutputCalls] : n \in 0..MaxCalls}
OutputErrors == {"nil", "encode failed"}

InitOutput ==
    /\ exact = EmptyMap
    /\ param = EmptyMap
    /\ nreg = 0
    /\ registeredRoutes = EmptyMap
    /\ cfg = DefaultCfg
    /\ \E script \in OutputScripts, err \in OutputErrors :
          call = [op |-> "output-input", script |-> script, err |-> err]

DoHandleOutput ==
    /\ call.op = "output-input"
    /\ LET res == handleOutput(call.script, call.err)
       IN call' = [op |-> "output", script |-> call.script, err |-> call.err,
                   w |-> res.tw.w, events |-> res.events]
    /\ UNCHANGED <<exact, param, nreg, registeredRoutes, cfg>>

NextOutput == DoHandleOutput

SpecOutput == InitOutput /\ [][NextOutput]_vars

\* C35: when the output handler returns an error, one output-error event
\* is emitted, and the response gets status 500 iff the handler committed
\* neither a status nor body bytes; otherwise the status sent first stays
\* and no second status reaches the response.
C35_OutputError500IffUncommitted ==
    (call.op = "output" /\ call.err # "nil")
        => /\ Len(call.events) = 1
           /\ call.events[1].type = "event_output_error"
           /\ IF Committing(call.script, FALSE) = {}
              THEN call.w.status = 500 /\ call.w.calls = <<500>>
              ELSE /\ call.w.status = FirstStatus(call.script, FALSE)
                   /\ Len(call.w.calls) <= 1
                   /\ \A k \in 1..Len(call.w.calls) :
                         call.w.calls[k] = call.w.status

\* Witness of C35: the output handler wrote body bytes and then failed; the
\* response keeps 200.
C35_Witness ==
    /\ call.op = "output"
    /\ call.err # "nil"
    /\ call.script = <<[op |-> "Write"]>>
    /\ call.w.status = 200
    /\ call.w.calls = <<>>

----------------------------------------------------------------------------
(* startServer and the goroutine of listenAndServe *)

ErrServerClosed == "http: Server closed"
ListenError == "listen error"
ShutdownError == "startServer: shutdown error"

\* The capacities the caller may give stopChan.
StopChanCaps == {0, 1}

\* An errChan without a buffer: make(chan error).
ErrChanCap_Unbuffered == Len(<<>>)

\* errChan := make(chan error, 1)
ErrChanCap == 1

\* startServer is at its receive from stopChan and the goroutine is about
\* to call ListenAndServe.
InitStart ==
    /\ exact = EmptyMap
    /\ param = EmptyMap
    /\ nreg = 0
    /\ registeredRoutes = EmptyMap
    /\ cfg = DefaultCfg
    /\ \E cap \in StopChanCaps :
          call = [op |-> "start", main |-> "wait", ret |-> "none",
                  listen |-> "listen", lerr |-> "none",
                  stopCap |-> cap, stopChan |-> 0, errChan |-> <<>>,
                  closed |-> FALSE, shutdowns |-> 0, shutdownFailed |-> FALSE,
                  signals |-> 0, raised |-> 0]

\* The operating system delivers a signal: signal.Notify sends it without
\* blocking, and drops it when the channel cannot take it.
Signal ==
    /\ call.op = "start"
    /\ call.main # "done"
    /\ call.signals < MaxSignals
    /\ call' =
          IF call.stopChan < call.stopCap
          THEN [call EXCEPT !.signals = @ + 1, !.stopChan = @ + 1,
                            !.raised = @ + 1]
          ELSE IF call.stopCap = 0 /\ call.main = "wait"
          THEN [call EXCEPT !.signals = @ + 1, !.main = "shutdown",
                            !.raised = @ + 1]
          ELSE [call EXCEPT !.signals = @ + 1]
    /\ UNCHANGED <<exact, param, nreg, registeredRoutes, cfg>>

\* server.ListenAndServe returns with a failure while the server is open.
ListenFails ==
    /\ call.op = "start"
    /\ call.listen = "listen"
    /\ ~call.closed
    /\ call' = [call EXCEPT !.listen = "sendErr", !.lerr = ListenError]
    /\ UNCHANGED <<exact, param, nreg, registeredRoutes, cfg>>

\* server.ListenAndServe returns ErrServerClosed once Shutdown was called.
ListenClosed ==
    /\ call.op = "start"
    /\ call.listen = "listen"
    /\ call.closed
    /\ call' = [call EXCEPT !.listen = "sendErr", !.lerr = ErrServerClosed]
    /\ UNCHANGED <<exact, param, nreg, registeredRoutes, cfg>>

\* errChan <- err, or errChan <- nil after ErrServerClosed.
SendErr ==
    /\ call.op = "start"
    /\ call.listen = "sendErr"
    /\ LET v == IF call.lerr = ErrServerClosed THEN "nil" ELSE call.lerr
           next == IF call.lerr = ErrServerClosed THEN "end" ELSE "sendStop"
       IN /\ Len(call.errChan) < ErrChanCap
             \/ (ErrChanCap = 0 /\ call.main = "recvErr")
          /\ call' = IF Len(call.errChan) < ErrChanCap
                     THEN [call EXCEPT !.errChan = Append(@, v),
                                       !.listen = next]
                     ELSE [call EXCEPT !.main = "done", !.ret = v,
                                       !.listen = next]
    /\ UNCHANGED <<exact, param, nreg, registeredRoutes, cfg>>

\* stopChan <- os.Interrupt, which blocks while the channel cannot take it.
SendStop ==
    /\ call.op = "start"
    /\ call.listen = "sendStop"
    /\ \/ /\ call.stopChan < call.stopCap
          /\ call' = [call EXCEPT !.stopChan = @ + 1, !.raised = @ + 1,
                                   !.listen = "end"]
       \/ /\ call.stopCap = 0
          /\ call.main = "wait"
          /\ call' = [call EXCEPT !.main = "shutdown", !.raised = @ + 1,
                                   !.listen = "end"]
    /\ UNCHANGED <<exact, param, nreg, registeredRoutes, cfg>>

\* <-stopChan
RecvStop ==
    /\ call.op = "start"
    /\ call.main = "wait"
    /\ call.stopChan > 0
    /\ call' = [call EXCEPT !.stopChan = @ - 1, !.main = "shutdown"]
    /\ UNCHANGED <<exact, param, nreg, registeredRoutes, cfg>>

\* server.Shutdown(ctx) and the return of the wrapped error when it fails.
Shutdown(fails) ==
    /\ call.op = "start"
    /\ call.main = "shutdown"
    /\ call' = [call EXCEPT !.shutdowns = @ + 1, !.closed = TRUE,
                            !.shutdownFailed = fails,
                            !.main = IF fails THEN "done" ELSE "recvErr",
                            !.ret = IF fails THEN ShutdownError ELSE @]
    /\ UNCHANGED <<exact, param, nreg, registeredRoutes, cfg>>

\* return <-errChan
RecvErr ==
    /\ call.op = "start"
    /\ call.main = "recvErr"
    /\ call.errChan # <<>>
    /\ call' = [call EXCEPT !.errChan = Tail(@), !.main = "done",
                            !.ret = Head(call.errChan)]
    /\ UNCHANGED <<exact, param, nreg, registeredRoutes, cfg>>

NextStart ==
    \/ Signal
    \/ ListenFails
    \/ ListenClosed
    \/ SendErr
    \/ SendStop
    \/ RecvStop
    \/ \E fails \in BOOLEAN : Shutdown(fails)
    \/ RecvErr

\* Both goroutines keep running and a closed server ends ListenAndServe;
\* signals and failures of ListenAndServe may or may not come.
SpecStart ==
    /\ InitStart
    /\ [][NextStart]_vars
    /\ WF_vars(ListenClosed)
    /\ WF_vars(SendErr)
    /\ WF_vars(SendStop)
    /\ WF_vars(RecvStop)
    /\ WF_vars(\E fails \in BOOLEAN : Shutdown(fails))
    /\ WF_vars(RecvErr)

\* What startServer has done so far is in order: it passes its receive only
\* after a stop was raised, calls Shutdown at most once and once before it
\* returns, and returns the wrapped error when Shutdown failed, otherwise
\* the error of ListenAndServe when listening failed, otherwise nil.
StartInOrder ==
    /\ call.main # "wait" => call.raised > 0
    /\ call.shutdowns <= 1
    /\ call.main \in {"recvErr", "done"} => call.shutdowns = 1
    /\ call.main = "done"
          => call.ret = IF call.shutdownFailed THEN ShutdownError
                        ELSE IF call.lerr = ListenError THEN ListenError
                        ELSE "nil"

\* C36: startServer waits for a stop, which a failure of ListenAndServe
\* raises by itself, then calls Shutdown once and returns: nil after a clean
\* shutdown, the error of ListenAndServe when listening failed, the wrapped
\* shutdown error when Shutdown failed.
C36_StartServerStops ==
    /\ [](call.op = "start" => StartInOrder)
    /\ (call.op = "start" /\ (call.raised > 0 \/ call.lerr = ListenError))
          ~> (call.op = "start" /\ call.main = "done")

\* Witness of C36: ListenAndServe failed with no signal delivered, and
\* startServer returned its error after a Shutdown.
C36_Witness ==
    /\ call.op = "start"
    /\ call.main = "done"
    /\ call.signals = 0
    /\ call.shutdowns = 1
    /\ call.ret = ListenError

----------------------------------------------------------------------------
(* database: Transaction and finalizeTransaction *)

Zero == "zero"

\* What txFn may do: return a result with or without an error, or panic.
TxFnOutcomes ==
    [kind : {"return"}, res : {"r1", "r2"}, err : {"nil"}, value : {"none"}]
    \cup [kind : {"return"}, res : {Zero, "r1"}, err : {"e1"},
          value : {"none"}]
    \cup [kind : {"panic"}, res : {Zero}, err : {"nil"},
          value : {"boom", "PanicNilError"}]

\* What Commit and Rollback of the transaction may return.
TxErrors == {"nil", "failed"}

\* A finalizeTransaction that commits whatever txFn did.
finalizeTransaction_CommitAlways(txErr, commitErr, rollbackErr) ==
    [err |-> IF commitErr # "nil"
             THEN "finalizeTransaction commit error" ELSE "nil",
     commits |-> 1, rollbacks |-> 0]

\* finalizeTransaction: Rollback when txErr is set, Commit otherwise; the
\* calls made on tx are counted.
finalizeTransaction(txErr, commitErr, rollbackErr) ==
    IF txErr # "nil"
    THEN [err |-> IF rollbackErr # "nil"
                  THEN "finalizeTransaction rollback error" ELSE "nil",
          commits |-> 0, rollbacks |-> 1]
    ELSE [err |-> IF commitErr # "nil"
                  THEN "finalizeTransaction commit error" ELSE "nil",
          commits |-> 1, rollbacks |-> 0]

InitTx ==
    /\ exact = EmptyMap
    /\ param = EmptyMap
    /\ nreg = 0
    /\ registeredRoutes = EmptyMap
    /\ cfg = DefaultCfg
    /\ \E fn \in TxFnOutcomes, ce \in TxErrors, re \in TxErrors :
          call = [op |-> "tx", pc |-> "call", fn |-> fn, commitErr |-> ce,
                  rollbackErr |-> re, result |-> Zero, txErr |-> "nil",
                  panicking |-> "none", panicOccurred |-> FALSE,
                  commits |-> 0, rollbacks |-> 0, raised |-> "none"]

\* return txFn(ctx, tx): the named results are set when txFn returns and
\* keep their zero values when it panics.
TxCall ==
    /\ call.op = "tx"
    /\ call.pc = "call"
    /\ call' = IF call.fn.kind = "return"
               THEN [call EXCEPT !.pc = "deferred", !.result = call.fn.res,
                                 !.txErr = call.fn.err]
               ELSE [call EXCEPT !.pc = "deferred",
                                 !.panicking = call.fn.value]
    /\ UNCHANGED <<exact, param, nreg, registeredRoutes, cfg>>

\* The deferred function recovers: a panic becomes the error of the call.
TxRecover ==
    /\ call.op = "tx"
    /\ call.pc = "deferred"
    /\ call' = IF call.panicking # "none"
               THEN [call EXCEPT !.pc = "finalize", !.panicOccurred = TRUE,
                                 !.txErr = "Transaction TxFn panicked"]
               ELSE [call EXCEPT !.pc = "finalize"]
    /\ UNCHANGED <<exact, param, nreg, registeredRoutes, cfg>>

\* finalizeTransaction and the results it replaces when it fails.
TxFinalize ==
    /\ call.op = "tx"
    /\ call.pc = "finalize"
    /\ LET f == finalizeTransaction(call.txErr, call.commitErr,
                                    call.rollbackErr)
       IN call' = [call EXCEPT
                      !.pc = "finalized",
                      !.commits = @ + f.commits,
                      !.rollbacks = @ + f.rollbacks,
                      !.txErr = IF f.err # "nil" THEN f.err ELSE @,
                      !.result = IF f.err # "nil" THEN Zero ELSE @]
    /\ UNCHANGED <<exact, param, nreg, registeredRoutes, cfg>>

\* The deferred function ends: the panic is raised again, or Transaction
\* returns its named results.
TxEnd ==
    /\ call.op = "tx"
    /\ call.pc = "finalized"
    /\ call' = IF call.panicOccurred
               THEN [call EXCEPT !.pc = "done", !.raised = call.panicking]
               ELSE [call EXCEPT !.pc = "done"]
    /\ UNCHANGED <<exact, param, nreg, registeredRoutes, cfg>>

NextTx == TxCall \/ TxRecover \/ TxFinalize \/ TxEnd

SpecTx == InitTx /\ [][NextTx]_vars

\* txFn returned an error or panicked.
TxFailed == call.fn.kind = "panic" \/ call.fn.err # "nil"

\* C37: Transaction calls one of Commit and Rollback, once: Rollback iff
\* txFn returned an error or panicked; a failing Commit or Rollback is
\* returned as the error with the zero result, and a panic of txFn is
\* raised again after the rollback.
C37_CommitXorRollback ==
    call.op = "tx"
        => /\ call.commits + call.rollbacks <= 1
           /\ call.pc = "done"
                => /\ call.commits + call.rollbacks = 1
                   /\ call.rollbacks = 1 <=> TxFailed
                   /\ call.raised =
                         (IF call.fn.kind = "panic" THEN call.fn.value
                          ELSE "none")
                   /\ call.fn.kind = "return"
                         => IF TxFailed /\ call.rollbackErr # "nil"
                            THEN /\ call.txErr =
                                      "finalizeTransaction rollback error"
                                 /\ call.result = Zero
                            ELSE IF ~TxFailed /\ call.commitErr # "nil"
                            THEN /\ call.txErr =
                                      "finalizeTransaction commit error"
                                 /\ call.result = Zero
                            ELSE /\ call.txErr = call.fn.err
                                 /\ call.result = call.fn.res

\* Witness of C37: txFn panicked, the transaction was rolled back and the
\* panic raised again.
C37_Witness ==
    /\ call.op = "tx"
    /\ call.pc = "done"
    /\ call.fn.kind = "panic"
    /\ call.rollbacks = 1
    /\ call.commits = 0
    /\ call.raised = "boom"

----------------------------------------------------------------------------
(* Match against MethodsFor *)

\* C38: a Match call, made in any state of the router for any method and
\* path, finds a route iff the method is in the set MethodsFor collects for
\* the path before it adds HEAD and OPTIONS; so every method in a list of
\* MethodsFor is matched, or is HEAD with GET matched, or is OPTIONS.
C38_MatchIffCollected ==
    /\ call.op = "MethodsFor"
          => \A k \in 1..Len(call.res) :
                \/ Match(R, call.res[k], call.path).found
                \/ call.res[k] = HEAD /\ Match(R, GET, call.path).found
                \/ call.res[k] = OPTIONS
    /\ call.op = "Match"
          => (call.res.found <=> call.method \in collected(R, call.path))

\* Witness of C38: a path served for GET by a parameterized route only, for
\* which MethodsFor lists GET, HEAD and OPTIONS.
C38_Witness ==
    /\ call.op = "MethodsFor"
    /\ call.res = <<OPTIONS, GET, HEAD>>
    /\ ~ExactRoute(GET, call.path)
    /\ Match(R, GET, call.path).found
    /\ ~Match(R, HEAD, call.path).found

----------------------------------------------------------------------------
(* The Allow header of a 405 *)

\* The request is served: its method is routed on the path, or it is a HEAD
\* and GET is routed, or it is an OPTIONS and methods are allowed.
Served ==
    \/ Routed(call.method, call.path)
    \/ call.method = HEAD /\ Routed(GET, call.path)
    \/ call.method = OPTIONS /\ AllowLists(call.path) # {<<>>}

\* C39: with the router's own MethodsFor, the Allow header of a 405 does
\* not list the method of the request, and a request that is served is
\* dispatched or answered by the synthesis, not rejected with a 405.
C39_AllowOmitsRequestMethod ==
    (Admitted /\ cfg.introspect)
        => /\ call.branch = "405"
                => /\ call.method \notin Elements(call.allow)
                   /\ "Allow" \in DOMAIN FinalHeaders(call.ws)
                         => FinalHeaders(call.ws)["Allow"] = Join(call.allow)
                   /\ ~Served
           /\ Served
                => call.branch \in {"matched", "head-fallback",
                                    "options-explicit", "options-synth"}

\* Witness of C39: a HEAD on a path served for GET ran the GET handler,
\* and a 405 on a path served for GET lists GET, HEAD and OPTIONS.
C39_Witness ==
    /\ Admitted
    /\ cfg.introspect
    /\ call.branch = "405"
    /\ call.method = POST
    /\ call.allow = <<OPTIONS, GET, HEAD>>
    /\ FinalHeaders(call.ws)["Allow"] = Join(call.allow)

----------------------------------------------------------------------------
(* Registration while requests are served *)

DynamicMethods == {GET, POST}
DynamicURLs == {PA, PAX}

\* No registration call is running and no request has looked yet.
InitDynamic ==
    /\ exact = EmptyMap
    /\ param = EmptyMap
    /\ nreg = 0
    /\ registeredRoutes = EmptyMap
    /\ cfg = DefaultCfg
    /\ call = [op |-> "dynamic", pc |-> "idle", kind |-> "none",
               method |-> <<>>, url |-> <<>>, seen |-> <<>>]

\* Handler.Register or Handler.Unregister is called and enters the call of
\* the router, which starts to write its tables.
MutationBegin(kind, method, url) ==
    /\ call.op = "dynamic"
    /\ call.pc = "idle"
    /\ kind = "Register" => nreg < MaxEndpoints
    /\ call' = [call EXCEPT !.pc = "router", !.kind = kind,
                            !.method = method, !.url = url]
    /\ UNCHANGED <<exact, param, nreg, registeredRoutes, cfg>>

\* The router after the pending call.
routerAfter(r, c, t) ==
    IF c.kind = "Register" THEN Register(r, c.method, c.url, "h1", t)
    ELSE Unregister(r, c.method, c.url)

\* The call of the router returns: its tables are written, the index is
\* not yet.
MutationRouter ==
    /\ call.op = "dynamic"
    /\ call.pc = "router"
    /\ LET r2 == routerAfter(R, call, nreg + 1)
       IN exact' = r2.exact /\ param' = r2.param
    /\ nreg' = IF call.kind = "Register" THEN nreg + 1 ELSE nreg
    /\ call' = [call EXCEPT !.pc = "index"]
    /\ UNCHANGED <<registeredRoutes, cfg>>

\* The index is updated under routesMu and the call returns.
MutationIndex ==
    /\ call.op = "dynamic"
    /\ call.pc = "index"
    /\ registeredRoutes' =
          IF call.kind = "Register"
          THEN indexAdd(registeredRoutes, call.url, call.method)
          ELSE indexRemove(registeredRoutes, call.method, call.url)
    /\ call' = [call EXCEPT !.pc = "idle"]
    /\ UNCHANGED <<exact, param, nreg, cfg>>

\* A request served by another goroutine looks a pair up in the router and
\* in the index. A look at the router during the write of its tables is a
\* data race: it may see the tables before or after the write.
Observe(method, url) ==
    /\ call.op = "dynamic"
    /\ \E r \in {R} \cup (IF call.pc = "router"
                            THEN {routerAfter(R, call, nreg + 1)} ELSE {}) :
          call' = [call EXCEPT !.seen =
                      <<[method |-> method, url |-> url,
                         routed |-> Match(r, method, concrete(url)).found,
                         indexed |-> /\ url \in DOMAIN registeredRoutes
                                     /\ method \in registeredRoutes[url],
                         busy |-> call.pc # "idle",
                         racing |-> call.pc = "router"]>>]
    /\ UNCHANGED <<exact, param, nreg, registeredRoutes, cfg>>

NextDynamic ==
    \/ \E kind \in {"Register", "Unregister"}, m \in DynamicMethods,
          u \in DynamicURLs : MutationBegin(kind, m, u)
    \/ MutationRouter
    \/ MutationIndex
    \/ \E m \in DynamicMethods, u \in DynamicURLs : Observe(m, u)

SpecDynamic == InitDynamic /\ [][NextDynamic]_vars

====
